---------------------------- MODULE Spec2Model ----------------------------
(***************************************************************************)
(* A model of the safetensors container codec (package safetensors):      *)
(* File.Serialize, Deserialize (the buffer decoder that mapped.go and the  *)
(* tests call Parse), the header (un)marshalling, the metadata validator,  *)
(* the tensor validators and the checked arithmetic.                       *)
(*                                                                         *)
(* A file is a sequence of bytes (0..255).  The header is real JSON text:  *)
(* MarshalJSON formats it byte by byte, and the decoder lexes and parses   *)
(* it byte by byte, so that lengths, padding and offsets are those of the  *)
(* bytes and a round trip is something the model can fail.                 *)
(*                                                                         *)
(* uint64 is modelled as an unsigned integer of 30 bits (Modulus), the     *)
(* widest that keeps every intermediate value inside TLC's integers while  *)
(* staying above maxHeaderSize; all arithmetic the code does in uint64     *)
(* wraps modulo Modulus here.                                              *)
(***************************************************************************)
EXTENDS Integers, Sequences, FiniteSets, TLC

(***************************************************************************)
(* Bytes and text                                                          *)
(***************************************************************************)

\* The printable ASCII characters, in code order starting at 32.
Chars ==
  << " ", "!", "\"", "#", "$", "%", "&", "'", "(", ")", "*", "+", ",", "-", ".", "/",
     "0", "1", "2", "3", "4", "5", "6", "7", "8", "9", ":", ";", "<", "=", ">", "?",
     "@", "A", "B", "C", "D", "E", "F", "G", "H", "I", "J", "K", "L", "M", "N", "O",
     "P", "Q", "R", "S", "T", "U", "V", "W", "X", "Y", "Z", "[", "\\", "]", "^", "_",
     "(grave)", "a", "b", "c", "d", "e", "f", "g", "h", "i", "j", "k", "l", "m", "n", "o",
     "p", "q", "r", "s", "t", "u", "v", "w", "x", "y", "z", "{", "|", "}", "~" >>

\* The byte of a one-character string.
Ord(c) == 31 + (CHOOSE i \in 1..Len(Chars) : Chars[i] = c)

\* The bytes of a text given as a tuple of one-character strings.
B(t) == [i \in 1..Len(t) |-> Ord(t[i])]

\* The concatenation of a sequence of byte strings.
RECURSIVE Concat(_)
Concat(ss) == IF ss = << >> THEN << >> ELSE Head(ss) \o Concat(Tail(ss))

\* Byte strings compared as Go compares strings (byte-wise lexicographic).
RECURSIVE LessBytes(_, _)
LessBytes(a, b) ==
  IF b = << >> THEN FALSE
  ELSE IF a = << >> THEN TRUE
  ELSE IF Head(a) # Head(b) THEN Head(a) < Head(b)
  ELSE LessBytes(Tail(a), Tail(b))

QUOTE == Ord("\"")
BACKSLASH == Ord("\\")
SPACE == Ord(" ")

(***************************************************************************)
(* uint64 arithmetic                                                       *)
(***************************************************************************)

\* The number of values of the unsigned integer type.
Modulus == 2^30

MaxUint == Modulus - 1

\* a + b in the unsigned type.
Add(a, b) == (a + b) % Modulus

\* a - b in the unsigned type.
Sub(a, b) == (a - b + Modulus) % Modulus

\* The square root of the modulus.
HalfModulus == 2^15

\* a * b in uint64 arithmetic, computed on the halves of the operands so
\* that no intermediate value leaves the integers of the model checker.
Mul(a, b) ==
  LET a0 == a % HalfModulus
      a1 == a \div HalfModulus
      b0 == b % HalfModulus
      b1 == b \div HalfModulus
  IN (a0 * b0 + ((a1 * b0 + a0 * b1) % HalfModulus) * HalfModulus) % Modulus


(***************************************************************************)
(* DType registry                                                          *)
(***************************************************************************)

BOOL == B(<<"B", "O", "O", "L">>)
U8 == B(<<"U", "8">>)
I8 == B(<<"I", "8">>)
F8_E5M2 == B(<<"F", "8", "_", "E", "5", "M", "2">>)
F8_E4M3 == B(<<"F", "8", "_", "E", "4", "M", "3">>)
I16 == B(<<"I", "1", "6">>)
U16 == B(<<"U", "1", "6">>)
F16 == B(<<"F", "1", "6">>)
BF16 == B(<<"B", "F", "1", "6">>)
I32 == B(<<"I", "3", "2">>)
U32 == B(<<"U", "3", "2">>)
F32 == B(<<"F", "3", "2">>)
F64 == B(<<"F", "6", "4">>)
I64 == B(<<"I", "6", "4">>)
U64 == B(<<"U", "6", "4">>)

\* The table of element sizes; a tag that is not a key gives 0, as a lookup
\* in a Go map does.
dTypeToSize(dt) ==
  CASE dt \in {BOOL, U8, I8, F8_E5M2, F8_E4M3} -> 1
    [] dt \in {I16, U16, F16, BF16} -> 2
    [] dt \in {I32, U32, F32} -> 4
    [] dt \in {F64, I64, U64} -> 8
    [] OTHER -> 0

\* DType.WordSize (DType.Size in dtype.go): the size in bytes of one element.
WordSize(dt) == dTypeToSize(dt)

(***************************************************************************)
(* Errors                                                                  *)
(***************************************************************************)

\* An error value: the message (kind), the message of the error it wraps
\* (cause, "" if none), the tensor name the message prints (<< >> if none)
\* and the numbers it prints.  kind "nil" is the nil error of Go.
Error(kind, cause, name, ops) ==
  [kind |-> kind, cause |-> cause, name |-> name, ops |-> ops]

NoError == Error("nil", "", << >>, << >>)

\* fmt.Errorf("<prefix>: %w", err): the outer message in front of the inner one.
Wrap(prefix, err) == Error(prefix, err.kind, err.name, err.ops)

(***************************************************************************)
(* Shape arithmetic and tensor validation                                  *)
(***************************************************************************)

\* A faulty multiplication that never reports an overflow.
uncheckedMul(a, b) == [c |-> Mul(a, b), err |-> NoError]

\* A faulty check that takes a product below an operand for the sign of an
\* overflow.
checkedMulBelow(a, b) ==
  LET c == Mul(a, b)
  IN IF c < a \/ c < b
       THEN [c |-> c, err |-> Error("multiplication overflow", "", << >>, <<a, b>>)]
       ELSE [c |-> c, err |-> NoError]

\* checkedMul multiplies a and b and checks for overflow.
checkedMul(a, b) ==
  LET c == Mul(a, b)
  IN IF a > 1 /\ b > 1 /\ c \div a # b
       THEN [c |-> c, err |-> Error("multiplication overflow", "", << >>, <<a, b>>)]
       ELSE [c |-> c, err |-> NoError]

\* The loop of numElementsFromShape: n *= v for every v.
RECURSIVE mulAll(_, _)
mulAll(n, shape) ==
  IF shape = << >> THEN n ELSE mulAll(Mul(n, Head(shape)), Tail(shape))

\* numElementsFromShape of safetensors.go: an empty shape holds one element.
numElementsFromShape(shape) ==
  IF Len(shape) = 0 THEN 1 ELSE mulAll(shape[1], Tail(shape))

\* numElementsFromShape of tensorview.go: an empty shape holds no element.
numElementsFromShapeView(shape) ==
  IF Len(shape) = 0 THEN 0 ELSE mulAll(shape[1], Tail(shape))

\* Tensor.Validate.
Validate(t) ==
  LET numElements == numElementsFromShape(t.Shape)
      n == Len(t.Data)
  IN IF n # Mul(numElements, WordSize(t.DType))
       THEN Error("invalid tensor", "", << >>, <<n>>)
       ELSE NoError

\* NewTensorView: the view and the error.
NewTensorView(dType, shape, data) ==
  LET n == Len(data)
      numElements == numElementsFromShapeView(shape)
  IN IF n # Mul(numElements, WordSize(dType))
       THEN [view |-> [DType |-> << >>, Shape |-> << >>, Data |-> << >>],
             err |-> Error("invalid tensor view", "", << >>, <<n>>)]
       ELSE [view |-> [DType |-> dType, Shape |-> shape, Data |-> data],
             err |-> NoError]

(***************************************************************************)
(* JSON text, as encoding/json writes it                                   *)
(***************************************************************************)

\* strconv's decimal form of an unsigned integer.
RECURSIVE FormatUint(_)
FormatUint(n) ==
  IF n < 10 THEN <<Ord("0") + n>>
  ELSE FormatUint(n \div 10) \o <<Ord("0") + (n % 10)>>

\* The bytes of a string inside its JSON quotes: a quote and a backslash are
\* each written behind a backslash.
RECURSIVE EscapeString(_)
EscapeString(s) ==
  IF s = << >> THEN << >>
  ELSE (IF Head(s) \in {QUOTE, BACKSLASH} THEN <<BACKSLASH, Head(s)>> ELSE <<Head(s)>>)
       \o EscapeString(Tail(s))

\* json.Marshal of a string.
MarshalString(s) == <<QUOTE>> \o EscapeString(s) \o <<QUOTE>>

\* The elements of ss with sep between them.
RECURSIVE Join(_, _)
Join(ss, sep) ==
  IF ss = << >> THEN << >>
  ELSE IF Len(ss) = 1 THEN ss[1]
  ELSE ss[1] \o sep \o Join(Tail(ss), sep)

\* json.Marshal of a []uint64.
MarshalUints(ns) ==
  B(<<"[">>) \o Join([i \in 1..Len(ns) |-> FormatUint(ns[i])], B(<<",">>)) \o B(<<"]">>)

\* The elements of a finite set of byte strings in ascending order.
RECURSIVE SortBytes(_)
SortBytes(S) ==
  IF S = {} THEN << >>
  ELSE LET m == CHOOSE x \in S : \A y \in S \ {x} : LessBytes(x, y)
       IN <<m>> \o SortBytes(S \ {m})

\* json.Marshal of a map[string]string: the keys in sorted order.
MarshalMap(m) ==
  LET keys == SortBytes(DOMAIN m)
  IN B(<<"{">>)
     \o Join([i \in 1..Len(keys) |->
                MarshalString(keys[i]) \o B(<<":">>) \o MarshalString(m[keys[i]])],
             B(<<",">>))
     \o B(<<"}">>)

\* json.Marshal of a tensorInfo: the three tagged fields in declaration order
\* (name is not part of the encoded JSON).
MarshalTensorInfo(t) ==
  B(<<"{", "\"", "d", "t", "y", "p", "e", "\"", ":">>) \o MarshalString(t.DType)
  \o B(<<",", "\"", "s", "h", "a", "p", "e", "\"", ":">>) \o MarshalUints(t.Shape)
  \o B(<<",", "\"", "d", "a", "t", "a", "_", "o", "f", "f", "s", "e", "t", "s", "\"", ":">>)
  \o MarshalUints(t.DataOffsets)
  \o B(<<"}">>)

\* The key the header reserves for the side dictionary.
metadataKey == B(<<"_", "_", "m", "e", "t", "a", "d", "a", "t", "a", "_", "_">>)

\* safeTensorsHeader.MarshalJSON: the side dictionary first when it is not
\* empty, then one pair per tensor in the order of h.tensors.
MarshalJSON(h) ==
  LET meta == IF DOMAIN h.metadata # {}
                THEN <<MarshalString(metadataKey) \o B(<<":">>) \o MarshalMap(h.metadata)>>
                ELSE << >>
      pairs == meta \o [i \in 1..Len(h.tensors) |->
                          MarshalString(h.tensors[i].name) \o B(<<":">>)
                          \o MarshalTensorInfo(h.tensors[i])]
  IN B(<<"{">>) \o Join(pairs, B(<<",">>)) \o B(<<"}">>)


(***************************************************************************)
(* JSON text, as encoding/json reads it                                    *)
(*                                                                         *)
(* A parsed value is a node [t, s, kids]: t is its type ("obj", "arr",     *)
(* "str", "num", "true", "false", "null"), s the decoded bytes of a string *)
(* or the literal text of a number, kids the members <<[k, v], ...>> of an *)
(* object in the order of the text or the elements of an array.  A parser  *)
(* returns [ok, v, i]: whether the text is well formed, the node, and the  *)
(* index after it.  \u escapes are not modelled; no input here holds one.  *)
(***************************************************************************)

Node(t, s, kids) == [t |-> t, s |-> s, kids |-> kids]

Parsed(v, i) == [ok |-> TRUE, v |-> v, i |-> i]

Malformed == [ok |-> FALSE, v |-> Node("null", << >>, << >>), i |-> 0]

IsSpace(c) == c \in {32, 9, 10, 13}

IsDigit(c) == c >= Ord("0") /\ c <= Ord("9")

At(b, i) == IF i >= 1 /\ i <= Len(b) THEN b[i] ELSE -1

\* The index of the first byte at or after i that is not white space.
RECURSIVE SkipSpace(_, _)
SkipSpace(b, i) == IF IsSpace(At(b, i)) THEN SkipSpace(b, i + 1) ELSE i

\* The index of the first byte at or after i that is not a digit.
RECURSIVE SkipDigits(_, _)
SkipDigits(b, i) == IF IsDigit(At(b, i)) THEN SkipDigits(b, i + 1) ELSE i

\* The body of a string from index i (after the opening quote).
RECURSIVE ScanString(_, _, _)
ScanString(b, i, acc) ==
  LET c == At(b, i)
      e == At(b, i + 1)
  IN IF c < 32 THEN Malformed
     ELSE IF c = QUOTE THEN Parsed(Node("str", acc, << >>), i + 1)
     ELSE IF c = BACKSLASH
       THEN IF e \in {QUOTE, BACKSLASH, Ord("/")} THEN ScanString(b, i + 2, acc \o <<e>>)
            ELSE IF e = Ord("b") THEN ScanString(b, i + 2, acc \o <<8>>)
            ELSE IF e = Ord("f") THEN ScanString(b, i + 2, acc \o <<12>>)
            ELSE IF e = Ord("n") THEN ScanString(b, i + 2, acc \o <<10>>)
            ELSE IF e = Ord("r") THEN ScanString(b, i + 2, acc \o <<13>>)
            ELSE IF e = Ord("t") THEN ScanString(b, i + 2, acc \o <<9>>)
            ELSE Malformed
     ELSE ScanString(b, i + 1, acc \o <<c>>)

\* A number from index i: -? int frac? exp?
ScanNumber(b, i) ==
  LET i1 == IF At(b, i) = Ord("-") THEN i + 1 ELSE i
      i2 == IF At(b, i1) = Ord("0") THEN i1 + 1 ELSE SkipDigits(b, i1)
      i3 == IF At(b, i2) = Ord(".") THEN SkipDigits(b, i2 + 1) ELSE i2
      fracOk == At(b, i2) # Ord(".") \/ i3 > i2 + 1
      hasExp == At(b, i3) \in {Ord("e"), Ord("E")}
      i4 == IF At(b, i3 + 1) \in {Ord("+"), Ord("-")} THEN i3 + 2 ELSE i3 + 1
      i5 == IF hasExp THEN SkipDigits(b, i4) ELSE i3
      expOk == ~hasExp \/ i5 > i4
  IN IF i2 > i1 /\ fracOk /\ expOk
       THEN Parsed(Node("num", SubSeq(b, i, i5 - 1), << >>), i5)
       ELSE Malformed

\* One of the literals true, false, null from index i.
ScanLiteral(b, i, word, t) ==
  IF i + Len(word) - 1 <= Len(b) /\ SubSeq(b, i, i + Len(word) - 1) = word
    THEN Parsed(Node(t, << >>, << >>), i + Len(word))
    ELSE Malformed

RECURSIVE ParseValue(_, _)
RECURSIVE ParseMembers(_, _, _)
RECURSIVE ParseElements(_, _, _)

\* The members of an object from index i, the first byte of a key.
ParseMembers(b, i, acc) ==
  LET key == IF At(b, i) = QUOTE THEN ScanString(b, i + 1, << >>) ELSE Malformed
      colon == SkipSpace(b, key.i)
      val == IF key.ok /\ At(b, colon) = Ord(":")
               THEN ParseValue(b, SkipSpace(b, colon + 1))
               ELSE Malformed
      next == SkipSpace(b, val.i)
      got == acc \o <<[k |-> key.v.s, v |-> val.v]>>
  IN IF ~val.ok THEN Malformed
     ELSE IF At(b, next) = Ord(",") THEN ParseMembers(b, SkipSpace(b, next + 1), got)
     ELSE IF At(b, next) = Ord("}") THEN Parsed(Node("obj", << >>, got), next + 1)
     ELSE Malformed

\* The elements of an array from index i, the first byte of an element.
ParseElements(b, i, acc) ==
  LET val == ParseValue(b, i)
      next == SkipSpace(b, val.i)
      got == acc \o <<val.v>>
  IN IF ~val.ok THEN Malformed
     ELSE IF At(b, next) = Ord(",") THEN ParseElements(b, SkipSpace(b, next + 1), got)
     ELSE IF At(b, next) = Ord("]") THEN Parsed(Node("arr", << >>, got), next + 1)
     ELSE Malformed

\* The value that starts at index i.
ParseValue(b, i) ==
  LET c == At(b, i)
      j == SkipSpace(b, i + 1)
  IN IF c = Ord("{")
       THEN IF At(b, j) = Ord("}") THEN Parsed(Node("obj", << >>, << >>), j + 1)
            ELSE ParseMembers(b, j, << >>)
     ELSE IF c = Ord("[")
       THEN IF At(b, j) = Ord("]") THEN Parsed(Node("arr", << >>, << >>), j + 1)
            ELSE ParseElements(b, j, << >>)
     ELSE IF c = QUOTE THEN ScanString(b, i + 1, << >>)
     ELSE IF c = Ord("-") \/ IsDigit(c) THEN ScanNumber(b, i)
     ELSE IF c = Ord("t") THEN ScanLiteral(b, i, B(<<"t", "r", "u", "e">>), "true")
     ELSE IF c = Ord("f") THEN ScanLiteral(b, i, B(<<"f", "a", "l", "s", "e">>), "false")
     ELSE IF c = Ord("n") THEN ScanLiteral(b, i, B(<<"n", "u", "l", "l">>), "null")
     ELSE Malformed

\* json.Unmarshal's check of its input: one value, white space around it.
ParseJSON(data) ==
  LET r == ParseValue(data, SkipSpace(data, 1))
  IN IF r.ok /\ SkipSpace(data, r.i) = Len(data) + 1 THEN r ELSE Malformed

\* strconv.ParseUint(s, 10, 64) of a number literal: [ok, n].
RECURSIVE ParseUintFrom(_, _, _)
ParseUintFrom(s, i, acc) ==
  IF i > Len(s) THEN [ok |-> TRUE, n |-> acc]
  ELSE IF ~IsDigit(s[i]) THEN [ok |-> FALSE, n |-> 0]
  ELSE LET d == s[i] - Ord("0")
       IN IF acc > (MaxUint - d) \div 10 THEN [ok |-> FALSE, n |-> 0]
          ELSE ParseUintFrom(s, i + 1, acc * 10 + d)

ParseUint(s) == IF s = << >> THEN [ok |-> FALSE, n |-> 0] ELSE ParseUintFrom(s, 1, 0)


(***************************************************************************)
(* Decoding JSON values into the header's Go types (encoding/json)         *)
(***************************************************************************)

TypeError == Error("json: cannot unmarshal", "", << >>, << >>)

\* The key of a struct field as encoding/json folds it to match a tag
\* (ASCII letters only).
FoldName(k) ==
  [i \in 1..Len(k) |-> IF k[i] >= Ord("A") /\ k[i] <= Ord("Z") THEN k[i] + 32 ELSE k[i]]

\* A JSON array decoded into uint64 elements, the first max of them only
\* (max = -1: all of them): [ok, ns].  An element must be a number that
\* strconv.ParseUint accepts; a null leaves the element 0.
RECURSIVE decodeUints(_, _, _, _)
decodeUints(kids, i, max, acc) ==
  IF i > Len(kids) \/ (max >= 0 /\ i > max) THEN [ok |-> TRUE, ns |-> acc]
  ELSE LET e == kids[i]
           n == ParseUint(e.s)
       IN IF e.t = "null" THEN decodeUints(kids, i + 1, max, acc \o <<0>>)
          ELSE IF e.t = "num" /\ n.ok THEN decodeUints(kids, i + 1, max, acc \o <<n.n>>)
          ELSE [ok |-> FALSE, ns |-> acc]

\* The tags DType.UnmarshalJSON knows: those of the width table.
DTypeTags ==
  {BOOL, U8, I8, F8_E5M2, F8_E4M3, I16, U16, F16, BF16, I32, U32, F32, F64, I64, U64}

DTypeStringError == Error("json: cannot unmarshal into Go value of type string", "", << >>, << >>)

\* DType.UnmarshalJSON on the JSON value v: [dt, err].  The value is decoded
\* into a string (a null leaves it empty), and the string must be one of the
\* tags.
unmarshalDType(v) ==
  IF v.t \notin {"str", "null"} THEN [dt |-> << >>, err |-> DTypeStringError]
  ELSE IF v.s \notin DTypeTags
    THEN [dt |-> << >>, err |-> Error("is not a valid DType", "", v.s, << >>)]
  ELSE [dt |-> v.s, err |-> NoError]

\* One member of a tensor's object stored into the tensorInfo r.t; r.err is
\* the first error so far.  A mistyped value is noted and the decoding goes
\* on; the error of DType.UnmarshalJSON ends it.
decodeField(r, m) ==
  LET key == FoldName(m.k)
      v == m.v
      all == decodeUints(v.kids, 1, -1, << >>)
      two == decodeUints(v.kids, 1, 2, << >>)
      dt == unmarshalDType(v)
      fail == [t |-> r.t, err |-> IF r.err = NoError THEN TypeError ELSE r.err]
  IN IF r.err \notin {NoError, TypeError} THEN r
     ELSE IF key = B(<<"d", "t", "y", "p", "e">>)
       THEN IF dt.err = NoError THEN [r EXCEPT !.t.DType = dt.dt]
            ELSE [t |-> r.t, err |-> dt.err]
     ELSE IF key = B(<<"s", "h", "a", "p", "e">>)
       THEN IF v.t = "arr" /\ all.ok THEN [r EXCEPT !.t.Shape = all.ns]
            ELSE IF v.t = "null" THEN [r EXCEPT !.t.Shape = << >>]
            ELSE fail
     ELSE IF key = B(<<"d", "a", "t", "a", "_", "o", "f", "f", "s", "e", "t", "s">>)
       THEN IF v.t = "arr" /\ two.ok
              THEN [r EXCEPT !.t.DataOffsets =
                      [i \in 1..2 |-> IF i <= Len(two.ns) THEN two.ns[i] ELSE 0]]
            ELSE IF v.t = "null" THEN r
            ELSE fail
     ELSE r

RECURSIVE decodeFields(_, _, _)
decodeFields(kids, i, r) ==
  IF i > Len(kids) THEN r ELSE decodeFields(kids, i + 1, decodeField(r, kids[i]))

\* dec.Decode(&t) with t := tensorInfo{name: keyStr}: [t, err].
decodeTensorInfo(name, v) ==
  LET zero == [t |-> [name |-> name, DType |-> << >>, Shape |-> << >>,
                      DataOffsets |-> <<0, 0>>],
               err |-> NoError]
  IN IF v.t = "obj" THEN decodeFields(v.kids, 1, zero)
     ELSE IF v.t = "null" THEN zero
     ELSE [zero EXCEPT !.err = TypeError]

\* map m with key k set to value x.
MapSet(m, k, x) == [y \in DOMAIN m \cup {k} |-> IF y = k THEN x ELSE m[y]]

RECURSIVE decodeMapEntries(_, _, _)
decodeMapEntries(kids, i, r) ==
  IF i > Len(kids) THEN r
  ELSE LET m == kids[i]
       IN IF m.v.t = "str"
            THEN decodeMapEntries(kids, i + 1, [r EXCEPT !.m = MapSet(r.m, m.k, m.v.s)])
          ELSE IF m.v.t = "null"
            THEN decodeMapEntries(kids, i + 1, [r EXCEPT !.m = MapSet(r.m, m.k, << >>)])
          ELSE [r EXCEPT !.err = TypeError]

\* dec.Decode(&h.metadata), a map[string]string holding cur: [m, err].
decodeMetadata(cur, v) ==
  IF v.t = "obj" THEN decodeMapEntries(v.kids, 1, [m |-> cur, err |-> NoError])
  ELSE IF v.t = "null" THEN [m |-> cur, err |-> NoError]
  ELSE [m |-> cur, err |-> TypeError]

(***************************************************************************)
(* The header                                                              *)
(***************************************************************************)

\* A faulty ceiling that no header length exceeds.
noHeaderCeiling == MaxUint

maxHeaderSize == 100000000

\* A safeTensorsHeader that holds nothing.
emptyHeader == [tensors |-> << >>, metadata |-> << >>]

\* A faulty append that puts the new tensor first.
prependTensor(tensors, t) == <<t>> \o tensors

\* h.tensors = append(h.tensors, t): the tensors stay in the order of the
\* keys of the text.
appendTensor(tensors, t) == Append(tensors, t)

\* The loop of UnmarshalJSON over the members of the top-level object.
RECURSIVE unmarshalMembers(_, _, _)
unmarshalMembers(kids, i, h) ==
  IF i > Len(kids)
    THEN IF Len(h.tensors) = 0
           THEN [h |-> h, err |-> Error("empty tensors", "", << >>, << >>)]
           ELSE [h |-> h, err |-> NoError]
  ELSE LET keyStr == kids[i].k
           md == decodeMetadata(h.metadata, kids[i].v)
           t == decodeTensorInfo(keyStr, kids[i].v)
       IN IF keyStr = metadataKey
            THEN IF md.err # NoError THEN [h |-> h, err |-> md.err]
                 ELSE unmarshalMembers(kids, i + 1, [h EXCEPT !.metadata = md.m])
          ELSE IF t.err # NoError THEN [h |-> h, err |-> t.err]
          ELSE unmarshalMembers(kids, i + 1, [h EXCEPT !.tensors = appendTensor(@, t.t)])

\* safeTensorsHeader.UnmarshalJSON once the first token v is read.  A text
\* that does not open with a brace makes it return its nil err, the header
\* left as it was.
unmarshalValue(v) ==
  IF v.t # "obj" THEN [h |-> emptyHeader, err |-> NoError]
  ELSE unmarshalMembers(v.kids, 1, emptyHeader)

\* safeTensorsHeader.UnmarshalJSON on well-formed JSON text: [h, err].  It
\* keeps the order of the keys.
UnmarshalJSON(data) == unmarshalValue(ParseJSON(data).v)

\* json.Unmarshal(data, h): the text is checked first, then handed to
\* UnmarshalJSON.
jsonUnmarshal(data) ==
  IF ~ParseJSON(data).ok
    THEN [h |-> emptyHeader, err |-> Error("json: syntax error", "", << >>, << >>)]
    ELSE UnmarshalJSON(data)

(***************************************************************************)
(* The container codec                                                     *)
(***************************************************************************)

\* binary.LittleEndian.PutUint64 into k bytes.
RECURSIVE PutUint(_, _)
PutUint(n, k) == IF k = 0 THEN << >> ELSE <<n % 256>> \o PutUint(n \div 256, k - 1)

PutUint64(n) == PutUint(n, 8)

\* binary.LittleEndian.Uint64 of the first 8 bytes of b.
RECURSIVE UintOf(_)
UintOf(b) == IF b = << >> THEN 0 ELSE b[1] + 256 * UintOf(Tail(b))

Uint64(b) == UintOf(SubSeq(b, 1, 8))

\* A faulty offset test that refuses a range without bytes.
OffsetStrict(info, start) == info.DataOffsets[1] = start /\ info.DataOffsets[2] > start

\* A faulty offset test that only asks the range not to be reversed, and
\* lets a tensor start anywhere.
OffsetLoose(info, start) == info.DataOffsets[2] >= info.DataOffsets[1]

\* The offset test of validate: the tensor starts where the previous one
\* ended and does not end before it starts.
OffsetOk(info, start) == info.DataOffsets[1] = start /\ info.DataOffsets[2] >= start

\* A faulty last test that lets bytes follow the last tensor.
CompleteAtMost(bufferEnd, n, bufferLen) == Add(Add(bufferEnd, 8), n) <= bufferLen

\* The last test of parseHeader: the header and the tensors account for the
\* whole buffer.
Complete(bufferEnd, n, bufferLen) == Add(Add(bufferEnd, 8), n) = bufferLen

\* The loop body of validate for the tensors from index i on, start being
\* the end of the previous tensor: [end, err].
RECURSIVE validateFrom(_, _, _)
validateFrom(tensors, i, start) ==
  IF i > Len(tensors) THEN [end |-> start, err |-> NoError]
  ELSE LET info == tensors[i]
           numElements == LET RECURSIVE prod(_, _)
                              prod(acc, j) ==
                                IF acc.err # NoError \/ j > Len(info.Shape) THEN acc
                                ELSE prod(checkedMul(acc.c, info.Shape[j]), j + 1)
                          IN prod([c |-> 1, err |-> NoError], 1)
           numBytes == checkedMul(numElements.c, WordSize(info.DType))
       IN IF ~OffsetOk(info, start)
            THEN [end |-> 0,
                  err |-> Error("invalid metadata offset for tensor", "", info.name, << >>)]
          ELSE IF numElements.err # NoError
            THEN [end |-> 0,
                  err |-> Wrap("metadata validation error: failed to compute num elements from shape", numElements.err)]
          ELSE IF numBytes.err # NoError
            THEN [end |-> 0,
                  err |-> Wrap("metadata validation error: failed to compute num bytes from num elements", numBytes.err)]
          ELSE IF Sub(info.DataOffsets[2], start) # numBytes.c
            THEN [end |-> 0, err |-> Error("metadata validation error: info data offsets mismatch", "", << >>, << >>)]
          ELSE validateFrom(tensors, i + 1, info.DataOffsets[2])

\* safeTensorsHeader.validate: in case of success the last seen offset
\* position, which should be the end of the data buffer.
validate(h) == validateFrom(h.tensors, 1, 0)

\* A parseHeader that returns the error e, its receiver h filled so far.
headerFailed(h, e) == [n |-> 0, h |-> h, err |-> e]

\* A parseHeader that returns the error e before it reads the header text.
headerError(e) == headerFailed(emptyHeader, e)

\* The end of parseHeader, with v what validate returned for the header h of
\* n bytes.
headerValidated(n, bufferLen, h, v) ==
  IF v.err # NoError THEN headerFailed(h, v.err)
  ELSE IF ~Complete(v.end, n, bufferLen)
    THEN headerFailed(h, Error("metadata incomplete buffer", "", << >>, << >>))
  ELSE [n |-> n, h |-> h, err |-> NoError]

\* parseHeader from json.Unmarshal on, with r what it returned for the n
\* bytes of header.
headerUnmarshaled(n, bufferLen, r) ==
  IF r.err # NoError THEN headerFailed(r.h, Wrap("invalid header deserialization", r.err))
  ELSE headerValidated(n, bufferLen, r.h, validate(r.h))

\* parseHeader once the header length n is read.
headerSized(buffer, bufferLen, n) ==
  IF n > maxHeaderSize
    THEN headerError(Error("header too large", "", << >>, <<maxHeaderSize, n>>))
  ELSE IF n + 8 > bufferLen
    THEN headerError(Error("invalid header length", "", << >>, <<n + 8>>))
  ELSE headerUnmarshaled(n, bufferLen, jsonUnmarshal(SubSeq(buffer, 9, n + 8)))

\* safeTensorsHeader.parseHeader: the size of the header and the parsed
\* header, given the bytes of the whole file: [n, h, err].
parseHeader(buffer) ==
  IF Len(buffer) < 8
    THEN headerError(Error("header too small", "", << >>, <<Len(buffer)>>))
  ELSE headerSized(buffer, Len(buffer), Uint64(buffer))

\* Whether the Go slice expression data[lo:hi] is in range.
SliceOk(data, lo, hi) == lo <= hi /\ hi <= Len(data)

\* A faulty slice that always starts at the first byte.
SliceHead(data, lo, hi) == SubSeq(data, 1, hi - lo)

\* data[lo:hi].
Slice(data, lo, hi) == SubSeq(data, lo + 1, hi)

\* tensorInfo.toTensor.
toTensor(t, data) ==
  [Name |-> t.name, DType |-> t.DType, Shape |-> t.Shape,
   Data |-> Slice(data, t.DataOffsets[1], t.DataOffsets[2])]

\* A faulty fromTensor that places every tensor at offset 0.
fromTensorAtZero(src, offset) ==
  [name |-> src.Name, DType |-> src.DType, Shape |-> src.Shape,
   DataOffsets |-> <<0, Len(src.Data)>>]

\* tensorInfo.fromTensor at the given offset.
fromTensor(src, offset) ==
  [name |-> src.Name, DType |-> src.DType, Shape |-> src.Shape,
   DataOffsets |-> <<offset, Add(offset, Len(src.Data))>>]

\* A File that holds nothing.
emptyFile == [Tensors |-> << >>, Metadata |-> << >>]

\* The index of the first element of errs that is an error, 0 if none.
FirstError(errs) ==
  IF \E i \in 1..Len(errs) : errs[i] # NoError
    THEN CHOOSE i \in 1..Len(errs) :
           errs[i] # NoError /\ \A j \in 1..(i - 1) : errs[j] = NoError
    ELSE 0

\* The loop of Deserialize over the tensors from index i on: [Tensors, err,
\* panic].  panic says that a slice expression was out of range.
RECURSIVE toTensors(_, _, _, _)
toTensors(infos, data, i, acc) ==
  IF i > Len(infos) THEN [Tensors |-> acc, err |-> NoError, panic |-> FALSE]
  ELSE IF ~SliceOk(data, infos[i].DataOffsets[1], infos[i].DataOffsets[2])
    THEN [Tensors |-> << >>, err |-> NoError, panic |-> TRUE]
  ELSE LET t == toTensor(infos[i], data)
       IN IF Validate(t) # NoError
            THEN [Tensors |-> << >>, err |-> Validate(t), panic |-> FALSE]
          ELSE toTensors(infos, data, i + 1, Append(acc, t))

\* The end of Deserialize, with ts what its loop made of the header r.
deserialized(r, ts) ==
  IF ts.panic \/ ts.err # NoError
    THEN [f |-> emptyFile, err |-> ts.err, panic |-> ts.panic, r |-> r]
  ELSE [f |-> [Tensors |-> ts.Tensors, Metadata |-> r.metadata],
        err |-> NoError, panic |-> FALSE, r |-> r]

\* Deserialize after parseHeader, with p what it returned.
headerParsed(buffer, p) ==
  IF p.err # NoError THEN [f |-> emptyFile, err |-> p.err, panic |-> FALSE, r |-> p.h]
  ELSE deserialized(p.h, toTensors(p.h.tensors, Slice(buffer, p.n + 8, Len(buffer)), 1, << >>))

\* Deserialize (Parse): the whole file in a byte buffer to a File whose
\* tensors are slices of the buffer: [f, err, panic, r].  r is its local
\* safeTensorsHeader as parseHeader left it.
Deserialize(buffer) == headerParsed(buffer, parseHeader(buffer))

(***************************************************************************)
(* Parse: the decoder that names the tensor and its index                  *)
(***************************************************************************)

\* fmt.Errorf(prefix + ": %w", err) around an error that is itself wrapped:
\* the chain of messages keeps its first and its last part, the name and
\* the operands.
Wrapped(prefix, err) ==
  Error(prefix, IF err.cause = "" THEN err.kind ELSE err.cause, err.name, err.ops)

\* The shape multiplied into acc from dimension j on, as tensorInfo.validate
\* does it: [c, err], stopping at the first overflow.
RECURSIVE shapeProduct(_, _, _)
shapeProduct(acc, shape, j) ==
  IF acc.err # NoError \/ j > Len(shape) THEN acc
  ELSE shapeProduct(checkedMul(acc.c, shape[j]), shape, j + 1)

\* tensorInfo.validate once the element count ne and the byte size nb are
\* computed.
tensorInfoSized(t, start, ne, nb) ==
  IF t.DataOffsets[1] # start
    THEN Error("invalid offset start", "", << >>, <<start, t.DataOffsets[1]>>)
  ELSE IF t.DataOffsets[2] < start
    THEN Error("invalid offset end", "", << >>, <<t.DataOffsets[2], start>>)
  ELSE IF ne.err # NoError
    THEN Error("failed to compute num elements from shape: multiplication overflow",
               "", << >>, ne.err.ops)
  ELSE IF nb.err # NoError
    THEN Error("failed to compute num bytes from num elements: multiplication overflow",
               "", << >>, nb.err.ops)
  ELSE IF Sub(t.DataOffsets[2], start) # nb.c
    THEN Error("info data offsets mismatch", "", << >>, <<nb.c, Sub(t.DataOffsets[2], start)>>)
  ELSE NoError

\* The byte size of tensorInfo.validate: the element count ne times the
\* width.
tensorInfoCounted(t, start, ne) ==
  tensorInfoSized(t, start, ne, checkedMul(ne.c, WordSize(t.DType)))

\* tensorInfo.validate(start): the error, NoError when the entry is sound.
tensorInfoValidate(t, start) ==
  tensorInfoCounted(t, start, shapeProduct([c |-> 1, err |-> NoError], t.Shape, 1))

\* A faulty end of the loop that reports every error at index 0.
RECURSIVE validateEach(_, _, _)
validatedEntryAtZero(tensors, i, start, e) ==
  IF e # NoError
    THEN [end |-> 0, err |-> Error("tensor", e.kind, tensors[i].name, <<0>> \o e.ops)]
  ELSE validateEach(tensors, i + 1, tensors[i].DataOffsets[2])

\* The loop of the validate that Parse calls, once entry i is validated
\* with the error e.  The error names the tensor and its index, which
\* counts from 0.
validatedEntry(tensors, i, start, e) ==
  IF e # NoError
    THEN [end |-> 0, err |-> Error("tensor", e.kind, tensors[i].name, <<i - 1>> \o e.ops)]
  ELSE validateEach(tensors, i + 1, tensors[i].DataOffsets[2])

\* The loop of that validate from entry i on: [end, err].
validateEach(tensors, i, start) ==
  IF i > Len(tensors) THEN [end |-> start, err |-> NoError]
  ELSE validatedEntry(tensors, i, start, tensorInfoValidate(tensors[i], start))

\* safeTensorsHeader.validate as Parse calls it: in case of success the
\* last seen offset position.
validateHeader(h) == validateEach(h.tensors, 1, 0)

\* parseHeaderBytes from json.Unmarshal on, with r what it returned for the
\* n bytes of header.
bytesUnmarshaled(n, r) ==
  IF r.err # NoError THEN headerFailed(r.h, r.err)
  ELSE [n |-> n, h |-> r.h, err |-> NoError]

\* parseHeaderBytes once the header length n is read.
bytesSized(buffer, bufferLen, n) ==
  IF n > maxHeaderSize
    THEN headerError(Error("too large", "", << >>, <<maxHeaderSize, n>>))
  ELSE IF n + 8 > bufferLen
    THEN headerError(Error("invalid length", "", << >>, <<n + 8>>))
  ELSE bytesUnmarshaled(n, jsonUnmarshal(SubSeq(buffer, 9, n + 8)))

\* safeTensorsHeader.parseHeaderBytes: the size of the header and the
\* header, not yet validated: [n, h, err].
parseHeaderBytes(buffer) ==
  IF Len(buffer) < 8
    THEN headerError(Error("too small", "", << >>, <<Len(buffer)>>))
  ELSE bytesSized(buffer, Len(buffer), Uint64(buffer))

\* A Parse that returns the error e, its header h filled so far.
parseFailed(h, e) == [f |-> emptyFile, err |-> e, panic |-> FALSE, r |-> h]

\* A faulty Parse that compares the lengths before it looks at the result of
\* the validation.
parseLengthFirst(buffer, p, v) ==
  IF ~Complete(v.end, p.n, Len(buffer))
    THEN parseFailed(p.h, Error("metadata incomplete buffer", "", << >>,
                                <<Add(Add(v.end, 8), p.n), Len(buffer)>>))
  ELSE IF v.err # NoError THEN parseFailed(p.h, Wrapped("invalid metadata", v.err))
  ELSE deserialized(p.h, toTensors(p.h.tensors, Slice(buffer, p.n + 8, Len(buffer)), 1, << >>))

\* Parse once the header p is validated with the result v.
parseValidated(buffer, p, v) ==
  IF v.err # NoError THEN parseFailed(p.h, Wrapped("invalid metadata", v.err))
  ELSE IF ~Complete(v.end, p.n, Len(buffer))
    THEN parseFailed(p.h, Error("metadata incomplete buffer", "", << >>,
                                <<Add(Add(v.end, 8), p.n), Len(buffer)>>))
  ELSE deserialized(p.h, toTensors(p.h.tensors, Slice(buffer, p.n + 8, Len(buffer)), 1, << >>))

\* Parse after parseHeaderBytes, with p what it returned.
parseSized(buffer, p) ==
  IF p.err # NoError THEN parseFailed(p.h, Wrapped("invalid header", p.err))
  ELSE parseValidated(buffer, p, validateHeader(p.h))

\* Parse: the whole file in a byte buffer to a File whose tensors are slices
\* of the buffer: [f, err, panic, r], r its local safeTensorsHeader.
Parse(buffer) == parseSized(buffer, parseHeaderBytes(buffer))

(***************************************************************************)
(* deserialize: the decoder that reads from an io.Reader                   *)
(***************************************************************************)

\* The reader handed to deserialize: data the bytes of the stream, pos how
\* many of them it has given out, chunk the most bytes one call of Read
\* gives out (0: as many as asked for, which is bytes.Reader).
Reader(data, chunk) == [data |-> data, pos |-> 0, chunk |-> chunk]

\* The bytes the reader r has not given out yet.
Remaining(r) == Len(r.data) - r.pos

\* r.Read(p) once it is known to give out k bytes.
readSome(r, k) == [n |-> k, err |-> "", r |-> [r EXCEPT !.pos = @ + k]]

\* r.Read(p) for a p of want bytes: [n, err, r], err being "" for nil.  A
\* reader at the end of its bytes returns io.EOF; a reader of short reads
\* gives out at most chunk bytes and no error.
Read(r, want) ==
  IF r.chunk # 0 /\ want = 0 THEN readSome(r, 0)
  ELSE IF Remaining(r) = 0 THEN [n |-> 0, err |-> "EOF", r |-> r]
  ELSE IF r.chunk # 0 /\ r.chunk < want /\ r.chunk < Remaining(r) THEN readSome(r, r.chunk)
  ELSE IF want < Remaining(r) THEN readSome(r, want)
  ELSE readSome(r, Remaining(r))

\* io.CopyN(&buf, r, x): [data, err, r].  It reads until it has x bytes,
\* however few each Read gives out, and returns io.EOF when the reader ends
\* before.
CopyN(r, x) ==
  IF Remaining(r) < x
    THEN [data |-> << >>, err |-> "EOF", r |-> [r EXCEPT !.pos = Len(r.data)]]
  ELSE [data |-> SubSeq(r.data, r.pos + 1, r.pos + x), err |-> "",
        r |-> [r EXCEPT !.pos = @ + x]]

\* A parseHeaderReader that returns the error e, its receiver h filled so
\* far and its reader left as r.
readerFailed(h, e, r) == [n |-> 0, h |-> h, err |-> e, r |-> r]

\* The error of parseHeaderReader for a Read that returned rd.
failedToRead(rd) ==
  IF rd.err = "" THEN Error("failed to read: %!w(<nil>)", "", << >>, << >>)
  ELSE Error("failed to read: EOF", "", << >>, << >>)

\* parseHeaderReader from json.Unmarshal on, with u what it returned for the
\* n bytes of header.
readerUnmarshaled(n, u, r) ==
  IF u.err # NoError THEN readerFailed(u.h, u.err, r)
  ELSE [n |-> n, h |-> u.h, err |-> NoError, r |-> r]

\* parseHeaderReader once Read has returned rd for the n bytes of header
\* that follow position pos.
readerText(data, pos, n, rd) ==
  IF rd.n # n \/ rd.err # "" THEN readerFailed(emptyHeader, failedToRead(rd), rd.r)
  ELSE readerUnmarshaled(n, jsonUnmarshal(SubSeq(data, pos + 1, pos + n)), rd.r)

\* parseHeaderReader once the header length n is read.
readerSized(r, n) ==
  IF n > maxHeaderSize
    THEN readerFailed(emptyHeader, Error("too large", "", << >>, <<maxHeaderSize, n>>), r)
  ELSE readerText(r.data, r.pos, n, Read(r, n))

\* parseHeaderReader once Read has returned rd for the 8 bytes of the length.
readerLength(data, rd) ==
  IF rd.n # 8 \/ rd.err # "" THEN readerFailed(emptyHeader, failedToRead(rd), rd.r)
  ELSE readerSized(rd.r, Uint64(data))

\* safeTensorsHeader.parseHeaderReader: the size of the header and the
\* header, not yet validated: [n, h, err, r].
parseHeaderReader(r) == readerLength(r.data, Read(r, 8))

\* tensorInfo.toTensor as deserialize calls it, with the bytes of the tensor.
toTensorOf(t, data) == [Name |-> t.name, DType |-> t.DType, Shape |-> t.Shape, Data |-> data]

\* A loop of deserialize that ends at tensor i with the error e or in a
\* panic.
streamStopped(e, panic, r, total) ==
  [Tensors |-> << >>, err |-> e, panic |-> panic, r |-> r, total |-> total]

\* The loop body of deserialize once io.CopyN has returned c for the x bytes
\* of tensor i.
RECURSIVE streamTensors(_, _, _, _, _)
streamCopied(infos, i, acc, total, x, c) ==
  IF c.err # ""
    THEN streamStopped(Error("tensor", "read error: EOF", infos[i].name, <<i - 1>>),
                       FALSE, c.r, total)
  ELSE IF Validate(toTensorOf(infos[i], c.data)) # NoError
    THEN streamStopped(Validate(toTensorOf(infos[i], c.data)), FALSE, c.r, Add(total, x))
  ELSE streamTensors(infos, c.r, i + 1, Append(acc, toTensorOf(infos[i], c.data)),
                     Add(total, x))

\* The loop body of deserialize for tensor i of x bytes.  buf.Grow(int(x))
\* panics when the conversion makes x negative.
streamTensor(infos, r, i, acc, total, x) ==
  IF x >= Modulus \div 2 THEN streamStopped(NoError, TRUE, r, total)
  ELSE streamCopied(infos, i, acc, total, x, CopyN(r, x))

\* The loop of deserialize over the tensors from index i on: [Tensors, err,
\* panic, r, total].
streamTensors(infos, r, i, acc, total) ==
  IF i > Len(infos)
    THEN [Tensors |-> acc, err |-> NoError, panic |-> FALSE, r |-> r, total |-> total]
  ELSE streamTensor(infos, r, i, acc, total,
                    Sub(infos[i].DataOffsets[2], infos[i].DataOffsets[1]))

\* A deserialize that returns the error e or panics, with r its reader.
streamFailed(e, panic, r) ==
  [f |-> emptyFile, err |-> e, panic |-> panic, chunk |-> r.chunk, left |-> Remaining(r)]

\* The end of deserialize, with ts what its loop made of the header p
\* validated as v.
streamed(p, v, ts) ==
  IF ts.panic \/ ts.err # NoError THEN streamFailed(ts.err, ts.panic, ts.r)
  ELSE IF Add(v.end, p.n) # ts.total
    THEN streamFailed(Error("metadata incomplete buffer", "", << >>,
                            <<Add(v.end, p.n), ts.total>>), FALSE, ts.r)
  ELSE [f |-> [Tensors |-> ts.Tensors, Metadata |-> p.h.metadata],
        err |-> NoError, panic |-> FALSE, chunk |-> ts.r.chunk, left |-> Remaining(ts.r)]

\* deserialize once the header p is validated with the result v.
streamValidated(p, v) ==
  IF v.err # NoError THEN streamFailed(Wrapped("invalid metadata", v.err), FALSE, p.r)
  ELSE streamed(p, v, streamTensors(p.h.tensors, p.r, 1, << >>, p.n))

\* deserialize after parseHeaderReader, with p what it returned.
streamSized(p) ==
  IF p.err # NoError THEN streamFailed(Wrapped("invalid header", p.err), FALSE, p.r)
  ELSE streamValidated(p, validateHeader(p.h))

\* deserialize: the file read from an io.Reader to a File that owns copies
\* of the bytes: [f, err, panic, chunk, left].  chunk is that of the reader
\* and left the bytes it has not given out when deserialize returns.
deserialize(r) == streamSized(parseHeaderReader(r))

\* The header File.Serialize builds: every tensor at the running offset.
RECURSIVE headerFrom(_, _, _)
headerFrom(tensors, i, offset) ==
  IF i > Len(tensors) THEN << >>
  ELSE LET t == fromTensor(tensors[i], offset)
       IN <<t>> \o headerFrom(tensors, i + 1, t.DataOffsets[2])

\* A faulty alignment that pads with bytes of 0.
AlignNull(b) ==
  LET n == Len(b) % 8
  IN IF n # 0 THEN b \o [i \in 1..(8 - n) |-> 0] ELSE b

\* The header text aligned with spaces to a multiple of 8 bytes.
Align(b) ==
  LET n == Len(b) % 8
  IN IF n # 0 THEN b \o [i \in 1..(8 - n) |-> SPACE] ELSE b

\* A faulty last loop that writes the tensors last to first.
payloadWritesReversed(tensors) == [i \in 1..Len(tensors) |-> tensors[Len(tensors) + 1 - i].Data]

\* The last loop of File.Serialize: one write per tensor, in the order of
\* f.Tensors.
payloadWrites(tensors) == [i \in 1..Len(tensors) |-> tensors[i].Data]

\* A faulty Serialize that validates a tensor only when it comes to write
\* it.
SerializeLate(f) ==
  LET bad == FirstError([i \in 1..Len(f.Tensors) |-> Validate(f.Tensors[i])])
      r == [tensors |-> headerFrom(f.Tensors, 1, 0), metadata |-> f.Metadata]
      b == Align(MarshalJSON(r))
  IN IF bad # 0
       THEN [err |-> Validate(f.Tensors[bad]),
             writes |-> <<PutUint64(Len(b)), b>> \o payloadWrites(SubSeq(f.Tensors, 1, bad - 1))]
       ELSE [err |-> NoError, writes |-> <<PutUint64(Len(b)), b>> \o payloadWrites(f.Tensors)]

\* File.Serialize: its error and the byte strings it hands to w.Write, in
\* order: [err, writes].
Serialize(f) ==
  LET bad == FirstError([i \in 1..Len(f.Tensors) |-> Validate(f.Tensors[i])])
      r == [tensors |-> headerFrom(f.Tensors, 1, 0), metadata |-> f.Metadata]
      b == Align(MarshalJSON(r))
      nbArr == PutUint64(Len(b))
  IN IF bad # 0 THEN [err |-> Validate(f.Tensors[bad]), writes |-> << >>]
     ELSE [err |-> NoError,
           writes |-> <<nbArr, b>> \o payloadWrites(f.Tensors)]

\* Faulty Write calls that go on after the call that failed.
writeOn(s, failAt) ==
  IF failAt \in 1..Len(s.writes)
    THEN [err |-> Error("write failed", "", << >>, <<failAt>>),
          taken |-> Concat(SubSeq(s.writes, 1, failAt - 1))
                    \o Concat(SubSeq(s.writes, failAt + 1, Len(s.writes)))]
  ELSE [err |-> s.err, taken |-> Concat(s.writes)]

\* The Write calls of File.Serialize, s being its error and the byte strings
\* it has for w.Write, on a writer whose call number failAt returns an error
\* and takes nothing (0: every call succeeds): the error File.Serialize
\* returns and the bytes the writer took, [err, taken].
writeEach(s, failAt) ==
  IF failAt \in 1..Len(s.writes)
    THEN [err |-> Error("write failed", "", << >>, <<failAt>>),
          taken |-> Concat(SubSeq(s.writes, 1, failAt - 1))]
  ELSE [err |-> s.err, taken |-> Concat(s.writes)]

\* f.Serialize(w) on such a writer.
SerializeTo(f, failAt) == writeEach(Serialize(f), failAt)


(***************************************************************************)
(* The inputs                                                              *)
(***************************************************************************)

MaxTensors == 2
MaxDim == 2
MaxLen == 4

Names == {B(<<"a">>), B(<<"b">>)}
DTypes == {U8, I16}
Shapes == {<< >>, <<0>>, <<1, MaxDim>>}
Metadatas == {<< >>, [k \in {B(<<"k">>)} |-> B(<<"v">>)]}

\* Shapes whose size leaves the unsigned type: the element count at the
\* second dimension, the byte size of a two-byte dtype, and the element
\* count before a dimension of 0.
OverflowShapes == {<<2, Modulus \div 2>>, <<Modulus \div 2 + MaxDim>>, <<2, Modulus \div 2, 0>>}

\* n bytes that tell the tensors and the positions apart.
DataOf(name, n) == [j \in 1..n |-> (name[1] + j) % 256]

\* The dtype and shape of the tensors of a container of several tensors: a
\* scalar of one byte, a tensor without elements, and a wider tensor of
\* MaxDim elements.
Kinds == {<<U8, << >>>>, <<I16, <<0>>>>, <<I16, <<1, MaxDim>>>>}

\* The tensors whose data has the length their dtype and shape ask for.
ValidTensors ==
  {[Name |-> n, DType |-> k[1], Shape |-> k[2],
    Data |-> DataOf(n, Mul(numElementsFromShape(k[2]), WordSize(k[1])))] :
     n \in Names, k \in Kinds}

\* Tensors of every dtype and shape, with data of any length.
AnyTensors ==
  {[Name |-> n, DType |-> dt, Shape |-> sh, Data |-> DataOf(n, len)] :
     n \in Names, dt \in DTypes, sh \in Shapes \cup OverflowShapes, len \in 0..MaxLen}

\* The tensor t with one byte too many.
Spoiled(t) == [t EXCEPT !.Data = @ \o <<0>>]

\* The containers handed to File.Serialize: those of valid tensors, those of
\* one tensor of any length, and those of MaxTensors tensors of which one
\* has a byte too many.
Files ==
  {[Tensors |-> ts, Metadata |-> m] :
     ts \in UNION {[1..k -> ValidTensors] : k \in 0..MaxTensors}, m \in Metadatas}
  \cup {[Tensors |-> <<t>>, Metadata |-> << >>] : t \in AnyTensors}
  \cup {[Tensors |-> [ts EXCEPT ![i] = Spoiled(@)], Metadata |-> << >>] :
          ts \in [1..MaxTensors -> ValidTensors], i \in 1..MaxTensors}

\* What happens to the written bytes before they are parsed.  d is a count of
\* bytes, a header length or an offset change (MaxUint is -1 in uint64
\* arithmetic), i the index of a tensor.  A span makes the last tensor one
\* of d bytes, so that its end offset is close to the end of the type.
Change(op, i, d, shape) == [op |-> op, i |-> i, d |-> d, shape |-> shape]
NoChange == Change("none", 0, 0, << >>)
ReadBackChange == Change("readback", 0, 0, << >>)

Changes(f, written) ==
  LET idx == 1..Len(f.Tensors)
      n == Uint64(written)
  IN {Change("prefix", 0, d, << >>) : d \in {n + 1, maxHeaderSize, maxHeaderSize + 1, MaxUint}}
     \cup {Change("grow", 0, 1, << >>)}
     \cup {Change("cut", 0, d, << >>) : d \in {0, 7, Len(written) - 1}}
     \cup {Change(op, i, d, << >>) : op \in {"start", "end", "shift"}, i \in idx,
                                     d \in {1, MaxUint}}
     \cup {Change("swap", 0, 0, << >>) : i \in {j \in idx : j > 1}}
     \cup UNION {{Change("shape", i, 0, sh) :
                     sh \in (Shapes \cup OverflowShapes) \ {f.Tensors[i].Shape}} : i \in idx}
     \cup {Change("span", i, d, << >>) : i \in {j \in idx : j = Len(f.Tensors)},
                                       d \in {MaxUint, MaxUint - 7}}

\* The sequence s the other way round.
Reverse(s) == [i \in 1..Len(s) |-> s[Len(s) + 1 - i]]

\* The file another writer makes of the header infos and the payload pay.
Written(infos, metadata, pay) ==
  LET b == Align(MarshalJSON([tensors |-> infos, metadata |-> metadata]))
  IN PutUint64(Len(b)) \o b \o pay

\* The bytes written for f, changed by c.
Changed(f, written, c) ==
  LET infos == headerFrom(f.Tensors, 1, 0)
      pay == Concat(payloadWrites(f.Tensors))
      moved == [infos EXCEPT ![c.i].DataOffsets =
                  CASE c.op = "start" -> <<Add(@[1], c.d), @[2]>>
                    [] c.op = "end" -> <<@[1], Add(@[2], c.d)>>
                    [] OTHER -> <<Add(@[1], c.d), Add(@[2], c.d)>>]
  IN CASE c.op = "prefix" -> PutUint64(c.d) \o SubSeq(written, 9, Len(written))
       [] c.op = "grow" -> written \o <<0>>
       [] c.op = "cut" -> SubSeq(written, 1, c.d)
       [] c.op \in {"start", "end", "shift"} -> Written(moved, f.Metadata, pay)
       [] c.op = "swap" -> Written(Reverse(infos), f.Metadata, pay)
       [] c.op = "shape" -> Written([infos EXCEPT ![c.i].Shape = c.shape], f.Metadata, pay)
       [] c.op = "span" ->
            Written([infos EXCEPT ![c.i] = [name |-> @.name, DType |-> U8, Shape |-> <<c.d>>,
                                            DataOffsets |-> <<@.DataOffsets[1],
                                                              Add(@.DataOffsets[1], c.d)>>]],
                    f.Metadata, pay)
       [] OTHER -> written

\* The ways the entry of a tensor leaves the schema of three fields: a field
\* is missing, one is added, the offsets are one or three, the dtype is not
\* a tag, or the entry is not an object.
EntryFaults ==
  {"nodtype", "noshape", "nooffsets", "extra", "offsets1", "offsets3",
   "baddtype", "numdtype", "nulldtype", "array", "number", "null"}

\* The JSON values that are not objects.
TopValues ==
  {B(<<"[", "]">>), B(<<"\"", "a", "\"">>), B(<<"1">>), B(<<"t", "r", "u", "e">>),
   B(<<"f", "a", "l", "s", "e">>), B(<<"n", "u", "l", "l">>)}

\* The entries of f written with a fault each, and the headers that are not
\* objects (shape holds their text).
Malformations(f) ==
  {Change(how, i, 0, << >>) : how \in EntryFaults, i \in 1..Len(f.Tensors)}
  \cup {Change("top", 0, 0, text) : text \in TopValues}

\* The text of the entry of the tensorInfo t, written with the fault how.
EntryText(t, how) ==
  LET dtype == CASE how = "baddtype" -> MarshalString(B(<<"X", "8">>))
                 [] how = "numdtype" -> B(<<"1">>)
                 [] how = "nulldtype" -> B(<<"n", "u", "l", "l">>)
                 [] OTHER -> MarshalString(t.DType)
      offsets == CASE how = "offsets1" -> <<t.DataOffsets[1]>>
                   [] how = "offsets3" -> t.DataOffsets \o <<t.DataOffsets[2]>>
                   [] OTHER -> t.DataOffsets
      members ==
        (IF how = "nodtype" THEN << >>
         ELSE <<B(<<"\"", "d", "t", "y", "p", "e", "\"", ":">>) \o dtype>>)
        \o (IF how = "noshape" THEN << >>
            ELSE <<B(<<"\"", "s", "h", "a", "p", "e", "\"", ":">>) \o MarshalUints(t.Shape)>>)
        \o (IF how = "nooffsets" THEN << >>
            ELSE <<B(<<"\"", "d", "a", "t", "a", "_", "o", "f", "f", "s", "e", "t", "s", "\"", ":">>)
                   \o MarshalUints(offsets)>>)
        \o (IF how = "extra" THEN <<B(<<"\"", "e", "x", "t", "r", "a", "\"", ":", "1">>)>>
            ELSE << >>)
  IN CASE how = "array" -> B(<<"[", "]">>)
       [] how = "number" -> B(<<"1">>)
       [] how = "null" -> B(<<"n", "u", "l", "l">>)
       [] OTHER -> B(<<"{">>) \o Join(members, B(<<",">>)) \o B(<<"}">>)

\* The header of infos and metadata in which the entry c.i has the fault
\* c.op.
HeaderWith(infos, metadata, c) ==
  LET meta == IF DOMAIN metadata # {}
                THEN <<MarshalString(metadataKey) \o B(<<":">>) \o MarshalMap(metadata)>>
                ELSE << >>
      pairs == meta \o [i \in 1..Len(infos) |->
                          MarshalString(infos[i].name) \o B(<<":">>)
                          \o EntryText(infos[i], IF i = c.i THEN c.op ELSE "none")]
  IN B(<<"{">>) \o Join(pairs, B(<<",">>)) \o B(<<"}">>)

\* The file a writer that does not keep the schema makes of f.
Forged(f, c) ==
  LET b == IF c.op = "top" THEN c.shape
           ELSE Align(HeaderWith(headerFrom(f.Tensors, 1, 0), f.Metadata, c))
  IN PutUint64(Len(b)) \o b \o Concat(payloadWrites(f.Tensors))

(***************************************************************************)
(* The state machine                                                       *)
(***************************************************************************)

VARIABLES
  file,     \* the File handed to File.Serialize
  w,        \* the bytes File.Serialize wrote to its io.Writer
  err,      \* the error of File.Serialize
  change,   \* what happened to the bytes between the writer and the parser
  buffer,   \* the bytes handed to Deserialize
  res,      \* the result of Deserialize
  w2,       \* the bytes written by serializing the parsed File again
  err2,     \* the error of that second File.Serialize
  view,     \* the results of Tensor.Validate and NewTensorView on a tensor
  pc,       \* the position of the caller
  mul,      \* the operands and the result of a call of checkedMul
  stream,   \* the result of deserialize on a reader of the buffer
  mapped,   \* the Mapped value: its File, its file handle f and its mapping m
  handles,  \* per file handle the process opened, the calls of its Close
  mappings, \* per mapping the process made, the calls of its Unmap
  ret       \* what the last call on the Mapped returned and did

vars == <<file, w, err, change, buffer, res, w2, err2, view, pc,
          mul, stream, mapped, handles, mappings, ret>>

NoResult == [f |-> emptyFile, err |-> NoError, panic |-> FALSE, r |-> emptyHeader]
NoView == [i |-> 0, verr |-> NoError, nerr |-> NoError]
NoMul == [a |-> 0, b |-> 0, r |-> [c |-> 0, err |-> NoError], done |-> FALSE]
NoStream == [f |-> emptyFile, err |-> NoError, panic |-> FALSE, chunk |-> 0, left |-> 0]

\* Mapped{}: no File, no file handle, no mapping (File is << >> for nil and
\* <<f>> for a pointer to f; f and m are 0 for nil).
NoMapped == [File |-> << >>, f |-> 0, m |-> 0]
\* No call on the Mapped yet.  A return tells the call (op, name), what it
\* returned (err, panic), the handles and mappings it acquired (hs, ms), the
\* releases it invoked in order (calls), the errors of the unmap and of the
\* close inside (uerr, cerr), whether the Mapped was open at the call, and
\* the number n of the call.
NoReturn == [op |-> "none", name |-> "", err |-> NoError, panic |-> FALSE,
             hs |-> {}, ms |-> {}, calls |-> << >>, uerr |-> NoError, cerr |-> NoError,
             open |-> FALSE, n |-> 0]

Init ==
  /\ file \in Files
  /\ w = << >>
  /\ err = NoError
  /\ change = NoChange
  /\ buffer = << >>
  /\ res = NoResult
  /\ w2 = << >>
  /\ err2 = NoError
  /\ view = NoView
  /\ pc = "start"
  /\ mul = NoMul
  /\ stream = NoStream
  /\ mapped = NoMapped
  /\ handles = << >>
  /\ mappings = << >>
  /\ ret = NoReturn

\* The caller validates tensor i of the file, and makes a view of it.
CallValidate(i) ==
  /\ pc = "start"
  /\ i \in 1..Len(file.Tensors)
  /\ view' = [i |-> i,
              verr |-> Validate(file.Tensors[i]),
              nerr |-> NewTensorView(file.Tensors[i].DType, file.Tensors[i].Shape,
                                     file.Tensors[i].Data).err]
  /\ pc' = "validated"
  /\ UNCHANGED <<file, w, err, change, buffer, res, w2, err2,
               mul, stream, mapped, handles, mappings, ret>>

\* file.Serialize(w) on a writer that takes every byte, or whose Write call
\* number failAt fails.
CallSerialize(failAt) ==
  /\ pc = "start"
  /\ LET s == SerializeTo(file, failAt)
     IN /\ w' = s.taken
        /\ err' = s.err
  /\ pc' = "serialized"
  /\ UNCHANGED <<file, change, buffer, res, w2, err2, view,
               mul, stream, mapped, handles, mappings, ret>>

\* The written bytes are read back as they are.
ReadBack ==
  /\ pc = "serialized"
  /\ err = NoError
  /\ buffer' = w
  /\ change' = ReadBackChange
  /\ pc' = "buffered"
  /\ UNCHANGED <<file, w, err, res, w2, err2, view,
               mul, stream, mapped, handles, mappings, ret>>

\* The bytes reach the parser changed: cut, extended, or with a header that
\* another writer made.
Tamper ==
  /\ pc = "serialized"
  /\ err = NoError
  /\ \E c \in Changes(file, w) :
       /\ buffer' = Changed(file, w, c)
       /\ change' = c
  /\ pc' = "buffered"
  /\ UNCHANGED <<file, w, err, res, w2, err2, view,
               mul, stream, mapped, handles, mappings, ret>>

\* Deserialize(buffer).
CallDeserialize ==
  /\ pc = "buffered"
  /\ res' = Deserialize(buffer)
  /\ pc' = "parsed"
  /\ UNCHANGED <<file, w, err, change, buffer, w2, err2, view,
               mul, stream, mapped, handles, mappings, ret>>

\* The parsed File is serialized again.
CallSerializeAgain ==
  /\ pc = "parsed"
  /\ res.err = NoError
  /\ ~res.panic
  /\ LET s == SerializeTo(res.f, 0)
     IN /\ w2' = s.taken
        /\ err2' = s.err
  /\ pc' = "reserialized"
  /\ UNCHANGED <<file, w, err, change, buffer, res, view,
               mul, stream, mapped, handles, mappings, ret>>

Next ==
  \/ \E i \in 1..MaxTensors : CallValidate(i)
  \/ \E failAt \in 0..(MaxTensors + 2) : CallSerialize(failAt)
  \/ ReadBack
  \/ Tamper
  \/ CallDeserialize
  \/ CallSerializeAgain

Spec == Init /\ [][Next]_vars

\* The bytes reach the parser with a header that does not keep the schema.
Malform ==
  /\ pc = "serialized"
  /\ err = NoError
  /\ \E c \in Malformations(file) :
       /\ buffer' = Forged(file, c)
       /\ change' = c
  /\ pc' = "buffered"
  /\ UNCHANGED <<file, w, err, res, w2, err2, view,
               mul, stream, mapped, handles, mappings, ret>>

\* Parse(buffer).
CallParse ==
  /\ pc = "buffered"
  /\ res' = Parse(buffer)
  /\ pc' = "parsed"
  /\ UNCHANGED <<file, w, err, change, buffer, w2, err2, view,
               mul, stream, mapped, handles, mappings, ret>>

\* The callers of Parse.
NextParse ==
  \/ CallSerialize(0)
  \/ ReadBack
  \/ Tamper
  \/ CallParse

ParseSpec == Init /\ [][NextParse]_vars

\* The most bytes per call of Read of the readers handed to deserialize: 0
\* for a reader that gives out what it is asked for, 1 for a reader of
\* single bytes, 8 for one that gives out the length in one piece.
Chunks == {0, 1, 8}

\* deserialize(r) on a reader of the bytes that Parse was given.
CallStream(chunk) ==
  /\ pc = "parsed"
  /\ stream' = deserialize(Reader(buffer, chunk))
  /\ pc' = "streamed"
  /\ UNCHANGED <<file, w, err, change, buffer, res, w2, err2, view,
                 mul, mapped, handles, mappings, ret>>

\* The callers that decode the same bytes from a buffer and from a stream.
NextStream ==
  \/ CallSerialize(0)
  \/ ReadBack
  \/ Tamper
  \/ CallParse
  \/ \E chunk \in Chunks : CallStream(chunk)

StreamSpec == Init /\ [][NextStream]_vars

\* The callers that parse the files of writers that do not keep the schema.
NextSchema ==
  \/ CallSerialize(0)
  \/ ReadBack
  \/ Malform
  \/ CallDeserialize

SchemaSpec == Init /\ [][NextSchema]_vars

\* How far the operands of checkedMul lie from the marks of the type.
MaxSpread == 3

\* The operands handed to checkedMul: the numbers at most MaxSpread away
\* from 0, from the square root of the modulus, from its third, from its
\* half and from the modulus itself, and two powers of 2.
MulOperands ==
  {x \in UNION {(m - MaxSpread)..(m + MaxSpread) :
                  m \in {0, HalfModulus, Modulus \div 3, Modulus \div 2, Modulus}} :
     x >= 0 /\ x <= MaxUint}
  \cup {2^10, 2^20}

\* A caller about to multiply two operands.
InitMul ==
  /\ file = emptyFile
  /\ w = << >>
  /\ err = NoError
  /\ change = NoChange
  /\ buffer = << >>
  /\ res = NoResult
  /\ w2 = << >>
  /\ err2 = NoError
  /\ view = NoView
  /\ pc = "start"
  /\ mul \in {[NoMul EXCEPT !.a = a, !.b = b] : a, b \in MulOperands}
  /\ stream = NoStream
  /\ mapped = NoMapped
  /\ handles = << >>
  /\ mappings = << >>
  /\ ret = NoReturn

\* checkedMul(a, b).
CallCheckedMul ==
  /\ ~mul.done
  /\ mul' = [mul EXCEPT !.r = checkedMul(mul.a, mul.b), !.done = TRUE]
  /\ UNCHANGED <<file, w, err, change, buffer, res, w2, err2, view, pc,
                 stream, mapped, handles, mappings, ret>>

NextMul == CallCheckedMul

MulSpec == InitMul /\ [][NextMul]_vars


(***************************************************************************)
(* Mapped: a File read from a memory-mapped file                           *)
(***************************************************************************)

\* How many calls are made on one Mapped.
MaxCalls == 4

\* The names handed to Open: of no file, of a file whose bytes Parse
\* refuses, and of a file that File.Serialize wrote.
FileNames == {"missing", "broken", "model"}

\* The File written to the file named model.
ModelFile ==
  [Tensors |-> <<[Name |-> B(<<"a">>), DType |-> I16, Shape |-> <<1, MaxDim>>,
                  Data |-> DataOf(B(<<"a">>), 2 * MaxDim)]>>,
   Metadata |-> << >>]

\* The bytes of the file of the given name: those File.Serialize wrote, and
\* those with a byte after them.
Content(name) ==
  IF name = "model" THEN Concat(Serialize(ModelFile).writes)
  ELSE Concat(Serialize(ModelFile).writes) \o <<0>>

\* A call to release the resource id: [op, id], id 0 being nil.
Release(op, id) == [op |-> op, id |-> id]

\* What a call on a Mapped leaves: the Mapped, the handles and mappings of
\* the process, and what the call returned and did.
Left(md, hdls, maps, e, panic, hs, ms, calls, uerr, cerr) ==
  [mapped |-> md, handles |-> hdls, mappings |-> maps, err |-> e,
   panic |-> panic, hs |-> hs, ms |-> ms, calls |-> calls, uerr |-> uerr, cerr |-> cerr]

\* s.m.Unmap(): [mappings, err].  The unmap of a nil mapping fails with
\* EINVAL; that of a mapping fails when fails says so.
Unmap(m, maps, fails) ==
  IF m = 0 THEN [mappings |-> maps, err |-> Error("invalid argument", "", << >>, << >>)]
  ELSE [mappings |-> [maps EXCEPT ![m].unmaps = @ + 1],
        err |-> IF fails THEN Error("unmap failed", "", << >>, << >>) ELSE NoError]

\* f.Close() on the handle f: [handles, err].  The second Close of a handle
\* returns os.ErrClosed.
CloseHandle(f, hdls, fails) ==
  [handles |-> [hdls EXCEPT ![f].closes = @ + 1],
   err |-> IF hdls[f].closes > 0 THEN Error("file already closed", "", << >>, << >>)
           ELSE IF fails THEN Error("close failed", "", << >>, << >>)
           ELSE NoError]

\* Mapped.Close once the unmap and the close have returned u and c.
closeReturned(st, u, c) ==
  Left([st.mapped EXCEPT !.m = 0], c.handles, u.mappings,
       IF u.err # NoError THEN u.err ELSE c.err, FALSE, {}, {},
       <<Release("Unmap", st.mapped.m), Release("Close", st.mapped.f)>>, u.err, c.err)

\* A faulty Close that returns the error of the unmap without closing the
\* handle.
closeUnmappedOrReturn(st, u, closeFails) ==
  IF u.err # NoError
    THEN Left([st.mapped EXCEPT !.m = 0], st.handles, u.mappings, u.err, FALSE, {}, {},
              <<Release("Unmap", st.mapped.m)>>, u.err, NoError)
  ELSE closeReturned(st, u, CloseHandle(st.mapped.f, st.handles, closeFails))

\* Mapped.Close once the unmap has returned u.  s.f.Close() on the nil
\* io.Closer of a Mapped that holds no handle is a nil dereference.
closeUnmapped(st, u, closeFails) ==
  IF st.mapped.f = 0
    THEN Left([st.mapped EXCEPT !.m = 0], st.handles, u.mappings, NoError, TRUE, {}, {},
              <<Release("Unmap", st.mapped.m)>>, u.err, NoError)
  ELSE closeReturned(st, u, CloseHandle(st.mapped.f, st.handles, closeFails))

\* Mapped.Close on the state st = [mapped, handles, mappings].
MappedClose(st, unmapFails, closeFails) ==
  closeUnmapped(st, Unmap(st.mapped.m, st.mappings, unmapFails), closeFails)

\* Mapped.Open once Parse has returned p for the mapping m of the handle f,
\* both stored in the Mapped of st.
openParsed(st, f, m, p, unmapFails, closeFails) ==
  IF p.panic THEN Left(st.mapped, st.handles, st.mappings, NoError, TRUE, {f}, {m},
                       << >>, NoError, NoError)
  ELSE IF p.err # NoError
    THEN [MappedClose(st, unmapFails, closeFails) EXCEPT !.err = p.err, !.hs = {f}, !.ms = {m}]
  ELSE Left([st.mapped EXCEPT !.File = <<p.f>>], st.handles, st.mappings, NoError, FALSE,
            {f}, {m}, << >>, NoError, NoError)

\* A faulty Open that returns the error of mmap.Map and leaves the handle
\* open.
mapFailedLeaks(st, f) ==
  Left(st.mapped, st.handles, st.mappings, Error("mmap failed", "", << >>, << >>), FALSE,
       {f}, {}, << >>, NoError, NoError)

\* Mapped.Open when mmap.Map has failed on the handle f: the handle is
\* closed and the error of its Close dropped.
mapFailed(st, f) ==
  Left(st.mapped, CloseHandle(f, st.handles, FALSE).handles, st.mappings,
       Error("mmap failed", "", << >>, << >>), FALSE,
       {f}, {}, <<Release("Close", f)>>, NoError, NoError)

\* Mapped.Open once os.OpenFile has returned the handle f, the last of the
\* handles of st.
openOpened(st, f, name, mapFails, unmapFails, closeFails) ==
  IF mapFails THEN mapFailed(st, f)
  ELSE openParsed([st EXCEPT !.mappings = Append(@, [f |-> f, unmaps |-> 0]),
                             !.mapped = [File |-> << >>, f |-> f,
                                         m |-> Len(st.mappings) + 1]],
                  f, Len(st.mappings) + 1, Parse(Content(name)), unmapFails, closeFails)

\* Mapped.Open(name) on the state st = [mapped, handles, mappings].
MappedOpen(st, name, mapFails, unmapFails, closeFails) ==
  IF name = "missing"
    THEN Left(st.mapped, st.handles, st.mappings,
              Error("no such file or directory", "", << >>, << >>), FALSE,
              {}, {}, << >>, NoError, NoError)
  ELSE openOpened([st EXCEPT !.handles = Append(@, [name |-> name, closes |-> 0])],
                  Len(st.handles) + 1, name, mapFails, unmapFails, closeFails)

\* A process with a Mapped{} and no handle or mapping.
InitMapped ==
  /\ file = emptyFile
  /\ w = << >>
  /\ err = NoError
  /\ change = NoChange
  /\ buffer = << >>
  /\ res = NoResult
  /\ w2 = << >>
  /\ err2 = NoError
  /\ view = NoView
  /\ pc = "start"
  /\ mul = NoMul
  /\ stream = NoStream
  /\ mapped = NoMapped
  /\ handles = << >>
  /\ mappings = << >>
  /\ ret = NoReturn

\* The call on the Mapped has left l.
Return(op, name, l) ==
  /\ mapped' = l.mapped
  /\ handles' = l.handles
  /\ mappings' = l.mappings
  /\ ret' = [op |-> op, name |-> name, err |-> l.err, panic |-> l.panic,
             hs |-> l.hs, ms |-> l.ms, calls |-> l.calls, uerr |-> l.uerr, cerr |-> l.cerr,
             open |-> mapped.m # 0, n |-> ret.n + 1]
  /\ UNCHANGED <<file, w, err, change, buffer, res, w2, err2, view, pc, mul, stream>>

\* s.Open(name).  mmap.Map, and the unmap and the close of the unwinding,
\* fail or not.
CallOpen(name, mapFails, unmapFails, closeFails) ==
  /\ ret.n < MaxCalls
  /\ ~ret.panic
  /\ Return("Open", name,
            MappedOpen([mapped |-> mapped, handles |-> handles, mappings |-> mappings],
                       name, mapFails, unmapFails, closeFails))

\* s.Close().  The unmap and the close fail or not.
CallClose(unmapFails, closeFails) ==
  /\ ret.n < MaxCalls
  /\ ~ret.panic
  /\ Return("Close", "",
            MappedClose([mapped |-> mapped, handles |-> handles, mappings |-> mappings],
                        unmapFails, closeFails))

NextMapped ==
  \/ \E name \in FileNames, mapFails, unmapFails, closeFails \in BOOLEAN :
       CallOpen(name, mapFails, unmapFails, closeFails)
  \/ \E unmapFails, closeFails \in BOOLEAN : CallClose(unmapFails, closeFails)

MappedSpec == InitMapped /\ [][NextMapped]_vars


(***************************************************************************)
(* Vocabulary of the properties                                            *)
(***************************************************************************)

\* Deserialize has returned.
Returned == pc \in {"parsed", "reserialized"}

\* Deserialize has returned a File.
Accepted == Returned /\ res.err = NoError /\ ~res.panic

\* a x b as a number and not as a uint64; Modulus stands for every product
\* that the unsigned type cannot hold.
Times(a, b) ==
  IF a = 0 \/ b = 0 THEN 0
  ELSE IF a > Modulus \div b THEN Modulus
  ELSE a * b

\* The product of the dimensions, as a number and not as a uint64.
RECURSIVE Product(_)
Product(shape) == IF shape = << >> THEN 1 ELSE Times(shape[1], Product(Tail(shape)))

\* product(shape) x width(dtype), as a number and not as a uint64.
ByteSize(shape, dt) == Times(Product(shape), dTypeToSize(dt))

\* A valid container: unique names, and every tensor's data as long as its
\* shape and dtype say.
ValidContainer(f) ==
  /\ \A i, j \in 1..Len(f.Tensors) : f.Tensors[i].Name = f.Tensors[j].Name => i = j
  /\ \A i \in 1..Len(f.Tensors) :
       Len(f.Tensors[i].Data) = ByteSize(f.Tensors[i].Shape, f.Tensors[i].DType)

\* The tensors of f as a set: with unique names, f keyed by name.
TensorSet(f) == {f.Tensors[i] : i \in 1..Len(f.Tensors)}

\* The names of a sequence of tensors or of header entries.
TensorNames(ts) == [i \in 1..Len(ts) |-> ts[i].Name]
InfoNames(infos) == [i \in 1..Len(infos) |-> infos[i].name]

\* The three parts of a file b: the header length N, the header text and
\* the payload.  HeaderFits says that b holds its whole header.
HeaderLen(b) == Uint64(b)
HeaderFits(b) == Len(b) >= 8 /\ HeaderLen(b) <= 100000000 /\ 8 + HeaderLen(b) <= Len(b)
HeaderText(b) == SubSeq(b, 9, 8 + HeaderLen(b))
Payload(b) == SubSeq(b, 9 + HeaderLen(b), Len(b))

\* The header of b decodes; HeaderInfos are its entries in the order of the
\* keys of the text.
HeaderReadable(b) == HeaderFits(b) /\ jsonUnmarshal(HeaderText(b)).err = NoError
HeaderInfos(b) == jsonUnmarshal(HeaderText(b)).h.tensors

\* Deserialize has returned after json.Unmarshal filled its header without
\* error; DecodedInfos are the entries of that header, in the order
\* UnmarshalJSON appended them.
HeaderDecoded ==
  /\ Returned
  /\ res.err.kind \notin {"header too small", "header too large", "invalid header length",
                          "invalid header deserialization"}
DecodedInfos == res.r.tensors

\* The keys of the top-level object of the header of b, in the order of
\* the text, the reserved key left out.
KeyOrder(b) ==
  LET v == ParseJSON(HeaderText(b)).v
  IN IF v.t # "obj" THEN << >>
     ELSE SelectSeq([i \in 1..Len(v.kids) |-> v.kids[i].k], LAMBDA k : k # metadataKey)

\* Where entry i has to start: at the end of the entry before it.
PrevEnd(infos, i) == IF i = 1 THEN 0 ELSE infos[i - 1].DataOffsets[2]

\* Entry i does not start at the end of the previous one, or ends before it
\* starts.
OffsetFault(infos, i) ==
  \/ infos[i].DataOffsets[1] # PrevEnd(infos, i)
  \/ infos[i].DataOffsets[2] < infos[i].DataOffsets[1]

\* The byte range of entry i is not as long as its shape and dtype say.
SizeFault(infos, i) ==
  infos[i].DataOffsets[2] - infos[i].DataOffsets[1] # ByteSize(infos[i].Shape, infos[i].DType)

\* Entry i is the first entry that validation finds fault with, and the
\* fault is in its offsets.
FirstOffsetFault(infos, i) ==
  /\ OffsetFault(infos, i)
  /\ \A j \in 1..(i - 1) : ~OffsetFault(infos, j) /\ ~SizeFault(infos, j)

OffsetError == "invalid metadata offset for tensor"
IncompleteError == "metadata incomplete buffer"
TooLargeError == "header too large"

(***************************************************************************)
(* C1, C2: round trip                                                      *)
(***************************************************************************)

\* C1: for every valid container (unique names, data lengths right, with or
\* without metadata), Deserialize of the bytes File.Serialize wrote succeeds
\* and returns the same tensors keyed by name and the same metadata.
C1_RoundTrip ==
  (Returned /\ change = ReadBackChange /\ ValidContainer(file))
    => /\ Accepted
       /\ TensorSet(res.f) = TensorSet(file)
       /\ res.f.Metadata = file.Metadata

\* C1: the container without tensors is serialized without error, and the
\* bytes written are then refused: the header holds no tensor.
C1_EmptyContainerRefused ==
  /\ pc = "parsed" /\ change = ReadBackChange
  /\ file.Tensors = << >> /\ ValidContainer(file) /\ err = NoError
  /\ res.err.kind = "invalid header deserialization" /\ res.err.cause = "empty tensors"

\* C2: for every valid container, serializing, parsing and serializing again
\* is possible and writes the bytes of the first serialization.
C2_IdempotentReencode ==
  (Returned /\ change = ReadBackChange /\ ValidContainer(file))
    => /\ Accepted
       /\ pc = "reserialized" => err2 = NoError /\ w2 = w

\* C2: a valid container whose first serialization cannot be parsed, so that
\* there is nothing to serialize again.
C2_NothingToReencode ==
  /\ pc = "parsed" /\ change = ReadBackChange /\ ValidContainer(file)
  /\ ~Accepted /\ w # << >> /\ ~ENABLED CallSerializeAgain

(***************************************************************************)
(* C3, C4: the length of the file and of the header                        *)
(***************************************************************************)

\* The end offset of the last tensor of a parsed File: its tensors follow
\* one another from 0, so it is the sum of their lengths.
RECURSIVE TotalLen(_)
TotalLen(ts) == IF ts = << >> THEN 0 ELSE Len(ts[1].Data) + TotalLen(Tail(ts))

\* The bytes written hold at least one payload byte.
HasPayload(b) == Len(b) > 8 + HeaderLen(b)

\* C3: Deserialize succeeds only if the input is exactly 8 + N + E bytes
\* long; a file that parses is refused as an incomplete buffer once a byte
\* follows its payload, or once the last byte of its payload is missing.
C3_ExactLength ==
  /\ (Returned /\ res.err = NoError)
       => /\ ~res.panic
          /\ HeaderFits(buffer)
          /\ Len(buffer) = 8 + HeaderLen(buffer) + TotalLen(res.f.Tensors)
  /\ (Returned /\ change.op = "grow" /\ Deserialize(w).err = NoError)
       => res.err.kind = IncompleteError
  /\ (Returned /\ change.op = "cut" /\ change.d = Len(w) - 1 /\ HasPayload(w)
        /\ Deserialize(w).err = NoError)
       => res.err.kind = IncompleteError

\* C3: a serialized file with a payload was parsed with one byte added, and
\* refused.
C3_TrailingByteRefused ==
  /\ Returned /\ change.op = "grow" /\ HasPayload(w)
  /\ Len(buffer) = Len(w) + 1
  /\ res.err.kind = IncompleteError

\* C4: every input of at least 8 bytes whose first 8 bytes give
\* N > 100,000,000 is refused as header too large, whatever its length and
\* whatever follows.
C4_HeaderCeiling ==
  (Returned /\ Len(buffer) >= 8 /\ HeaderLen(buffer) > 100000000)
    => res.err.kind = TooLargeError /\ ~res.panic

\* C4: an input whose prefix says 100,000,001 was refused, and it is far
\* shorter than the header it announces.
C4_OversizedPrefixRefused ==
  /\ Returned /\ change.op = "prefix"
  /\ HeaderLen(buffer) = 100000001 /\ Len(buffer) < 100000001
  /\ res.err.kind = TooLargeError

(***************************************************************************)
(* C5, C6: offsets                                                         *)
(***************************************************************************)

\* Parse read the header text and went on to validate it.
ParseDecoded == Returned /\ res.err.kind # "invalid header"

\* C5: Parse refuses a header in which a tensor does not start at the end of
\* the previous one (0 for the first), or ends before it starts; the error
\* names the first tensor validation finds fault with, and its index, and
\* is the error of that entry's offsets.
C5_ContiguityFailFast ==
  ParseDecoded
    => \A i \in 1..Len(DecodedInfos) :
         FirstOffsetFault(DecodedInfos, i)
           => /\ res.err.kind = "invalid metadata"
              /\ res.err.cause \in {"invalid offset start", "invalid offset end"}
              /\ res.err.name = DecodedInfos[i].name
              /\ res.err.ops[1] = i - 1

\* C5 (witness): the second tensor of a header starts before the end of the
\* first, which is sound; Parse refuses it with the name of the second
\* tensor and the index 1.
C5_SecondTensorNamed ==
  /\ ParseDecoded
  /\ Len(DecodedInfos) = 2
  /\ FirstOffsetFault(DecodedInfos, 2)
  /\ DecodedInfos[2].DataOffsets[1] < DecodedInfos[1].DataOffsets[2]
  /\ res.err.cause = "invalid offset start"
  /\ res.err.name = DecodedInfos[2].name
  /\ res.err.ops = <<1, DecodedInfos[1].DataOffsets[2], DecodedInfos[2].DataOffsets[1]>>

\* C6: in every File Deserialize returns for an input b with header length
\* N, the offset ranges follow one another from 0, each tensor's Data is
\* the bytes b[8+N+start .. 8+N+end) and is product(shape) x width(dtype)
\* long, and the ranges cover the payload exactly.
C6_DecodedContainer ==
  (Returned /\ res.err = NoError)
    => /\ ~res.panic
       /\ HeaderReadable(buffer)
       /\ LET infos == HeaderInfos(buffer)
              ts == res.f.Tensors
              base == 8 + HeaderLen(buffer)
          IN /\ Len(ts) = Len(infos)
             /\ \A i \in 1..Len(infos) :
                  /\ infos[i].DataOffsets[1] = PrevEnd(infos, i)
                  /\ infos[i].DataOffsets[2] >= infos[i].DataOffsets[1]
                  /\ ts[i].Data = SubSeq(buffer, base + infos[i].DataOffsets[1] + 1,
                                         base + infos[i].DataOffsets[2])
                  /\ Len(ts[i].Data) = ByteSize(ts[i].Shape, ts[i].DType)
             /\ PrevEnd(infos, Len(infos) + 1) = Len(buffer) - base

\* C6: a File of two tensors that both hold bytes was returned.
C6_TwoRangesDecoded ==
  /\ Accepted /\ Len(res.f.Tensors) = 2
  /\ res.f.Tensors[1].Data # << >> /\ res.f.Tensors[2].Data # << >>
  /\ res.f.Tensors[1].Data # res.f.Tensors[2].Data

(***************************************************************************)
(* C7, C8, C9: order                                                       *)
(***************************************************************************)

\* C7: the tensors Deserialize returns are in the order of their keys in the
\* header text, and a container serialized with several tensors parses back
\* with every tensor at its position.
C7_DecodeKeepsFileOrder ==
  /\ Accepted => TensorNames(res.f.Tensors) = KeyOrder(buffer)
  /\ (Returned /\ change = ReadBackChange /\ Len(file.Tensors) > 1)
       => Accepted /\ res.f.Tensors = file.Tensors

\* C7: a container whose tensors are not in the order of their names was
\* parsed back.
C7_UnsortedOrderKept ==
  /\ Accepted /\ change = ReadBackChange
  /\ Len(file.Tensors) = 2
  /\ LessBytes(file.Tensors[2].Name, file.Tensors[1].Name)
  /\ TensorNames(res.f.Tensors) = TensorNames(file.Tensors)

\* t comes before u in the canonical order: wider dtype first, then the
\* smaller name.
CanonicalBefore(t, u) ==
  \/ dTypeToSize(t.DType) > dTypeToSize(u.DType)
  \/ dTypeToSize(t.DType) = dTypeToSize(u.DType) /\ LessBytes(t.Name, u.Name)

\* The tensors ts in the canonical order (their names are unique).
CanonicalOrder(ts) ==
  CHOOSE p \in [1..Len(ts) -> 1..Len(ts)] :
    /\ \A i, j \in 1..Len(ts) : p[i] = p[j] => i = j
    /\ \A i \in 1..(Len(ts) - 1) : CanonicalBefore(ts[p[i]], ts[p[i + 1]])

Permuted(ts, p) == [i \in 1..Len(ts) |-> ts[p[i]]]

ContiguousAs(infos, p, n) ==
  LET q == Permuted(infos, p)
  IN /\ \A i, j \in 1..Len(infos) : p[i] = p[j] => i = j
     /\ \A i \in 1..Len(q) : ~OffsetFault(q, i) /\ ~SizeFault(q, i)
     /\ PrevEnd(q, Len(q) + 1) = n

\* The entries are in ascending order of (start, end).
AscendingOffsets(infos) ==
  \A i \in 1..(Len(infos) - 1) :
    \/ infos[i].DataOffsets[1] < infos[i + 1].DataOffsets[1]
    \/ /\ infos[i].DataOffsets[1] = infos[i + 1].DataOffsets[1]
       /\ infos[i].DataOffsets[2] <= infos[i + 1].DataOffsets[2]

\* The orders in which n entries can be taken.
Orders(n) == {p \in [1..n -> 1..n] : \A i, j \in 1..n : p[i] = p[j] => i = j}

\* The orders in which the entries infos are sorted by (start, end),
\* contiguous from 0 and size-consistent, over a payload of n bytes.
SoundOrders(infos, n) ==
  {p \in Orders(Len(infos)) :
     ContiguousAs(infos, p, n) /\ AscendingOffsets(Permuted(infos, p))}

Viewed == file.Tensors[view.i]

\* C10: the empty shape is one element in every validation path.  A header
\* of one entry with shape [] over the whole payload is accepted exactly
\* when the payload is width(dtype) bytes long; Tensor.Validate and
\* NewTensorView accept a tensor with shape [] exactly when its data is
\* width(dtype) bytes long.
C10_EmptyShapeIsOneElement ==
  /\ (Returned /\ HeaderReadable(buffer))
       => LET infos == HeaderInfos(buffer)
          IN (/\ Len(infos) = 1
              /\ infos[1].Shape = << >>
              /\ infos[1].DataOffsets = <<0, Len(Payload(buffer))>>)
               => (Accepted <=> Len(Payload(buffer)) = dTypeToSize(infos[1].DType))
  /\ (pc = "validated" /\ Viewed.Shape = << >>)
       => /\ view.verr = NoError <=> Len(Viewed.Data) = dTypeToSize(Viewed.DType)
          /\ view.nerr = NoError <=> Len(Viewed.Data) = dTypeToSize(Viewed.DType)

\* C10: a tensor with shape [] and data of width(dtype) bytes passed
\* Tensor.Validate, and NewTensorView refused it.
C10_ViewRefusesScalar ==
  /\ pc = "validated" /\ Viewed.Shape = << >>
  /\ Len(Viewed.Data) = dTypeToSize(Viewed.DType)
  /\ view.verr = NoError
  /\ view.nerr.kind = "invalid tensor view"

(***************************************************************************)
(* C11, C12: tensors without elements, and sizes that overflow             *)
(***************************************************************************)

\* The shape has a dimension of 0.
HasZero(shape) == \E j \in 1..Len(shape) : shape[j] = 0

\* The two numbers whose product is the first to leave the unsigned type
\* when the dimensions are multiplied left to right from acc and the element
\* count is then multiplied by the width of dt; << >> if none does.
RECURSIVE FirstOverflow(_, _, _)
FirstOverflow(acc, shape, dt) ==
  IF shape = << >>
    THEN IF Times(acc, dTypeToSize(dt)) = Modulus THEN <<acc, dTypeToSize(dt)>> ELSE << >>
  ELSE IF Times(acc, shape[1]) = Modulus THEN <<acc, shape[1]>>
  ELSE FirstOverflow(Times(acc, shape[1]), Tail(shape), dt)

\* The size of entry i cannot be computed in the unsigned type.
Overflows(infos, i) == FirstOverflow(1, infos[i].Shape, infos[i].DType) # << >>

\* No entry is at fault, and the entries end where the payload of b ends.
SoundHeader(infos, b) ==
  /\ infos # << >>
  /\ \A i \in 1..Len(infos) :
       ~OffsetFault(infos, i) /\ ~SizeFault(infos, i) /\ ~Overflows(infos, i)
  /\ PrevEnd(infos, Len(infos) + 1) = Len(Payload(b))

ReachedSizeOf(infos, i) ==
  /\ ~OffsetFault(infos, i)
  /\ \A j \in 1..(i - 1) : ~OffsetFault(infos, j) /\ ~SizeFault(infos, j)

OverflowError == "multiplication overflow"

\* C12: every header with an entry whose dimensions, multiplied left to
\* right, or whose element count times the width of the dtype, exceed the
\* unsigned type is refused; when validation gets to the size of that entry
\* the error is the overflow error with the two operands, also when the
\* wrapped-around size is the length of the declared range.
C12_OverflowRejected ==
  HeaderDecoded
    => LET infos == DecodedInfos
       IN \A i \in 1..Len(infos) :
            Overflows(infos, i)
              => /\ ~Accepted
                 /\ ~res.panic
                 /\ ReachedSizeOf(infos, i)
                      => /\ res.err.cause = OverflowError
                         /\ res.err.ops = FirstOverflow(1, infos[i].Shape, infos[i].DType)

\* C12: an entry whose element count wraps around to 0 and whose declared
\* range is empty was refused with the overflow error.
C12_WrappedSizeRefused ==
  /\ HeaderDecoded /\ change.op = "shape" /\ change.shape = <<2, Modulus \div 2>>
  /\ LET info == DecodedInfos[change.i]
     IN /\ info.Shape = change.shape
        /\ ReachedSizeOf(DecodedInfos, change.i)
        /\ Mul(mulAll(1, info.Shape), WordSize(info.DType))
             = info.DataOffsets[2] - info.DataOffsets[1]
        /\ res.err.cause = OverflowError
        /\ res.err.ops = <<2, Modulus \div 2>>

(***************************************************************************)
(* C13: the tensor validators                                              *)
(***************************************************************************)

\* C13: Tensor.Validate and NewTensorView accept a tensor only if its data
\* is exactly product(shape) x width(dtype) bytes long, the product taken as
\* a number; a shape whose size leaves the unsigned type is refused.
C13_ExactValidation ==
  pc = "validated"
    => /\ view.verr = NoError => Len(Viewed.Data) = ByteSize(Viewed.Shape, Viewed.DType)
       /\ view.nerr = NoError => Len(Viewed.Data) = ByteSize(Viewed.Shape, Viewed.DType)

\* C13: Tensor.Validate and NewTensorView accepted a tensor without data
\* whose element count leaves the unsigned type and wraps around to 0.
C13_WrappedShapeAccepted ==
  /\ pc = "validated"
  /\ Viewed.Shape = <<2, Modulus \div 2>> /\ Viewed.Data = << >>
  /\ Product(Viewed.Shape) = Modulus
  /\ view.verr = NoError /\ view.nerr = NoError

(***************************************************************************)
(* C14, C15: what File.Serialize writes when it fails                      *)
(***************************************************************************)

\* File.Serialize has returned.
Serialized == pc = "serialized"

\* The first tensor of f that Tensor.Validate refuses, 0 if it refuses none.
FirstInvalid(f) == FirstError([i \in 1..Len(f.Tensors) |-> Validate(f.Tensors[i])])

\* C14: if Tensor.Validate refuses a tensor of the container, wherever it
\* is, File.Serialize returns the validation error of the first such tensor
\* and has made no Write call: the writer has no byte, and a writer whose
\* first Write fails was not asked to write.
C14_ValidatesBeforeWriting ==
  (Serialized /\ FirstInvalid(file) # 0)
    => /\ err.kind = "invalid tensor"
       /\ err.ops = <<Len(file.Tensors[FirstInvalid(file)].Data)>>
       /\ w = << >>

\* C14: a container whose first tensor is valid and has data, and whose
\* last tensor is not valid, was refused with nothing written.
C14_LastTensorInvalid ==
  /\ Serialized /\ Len(file.Tensors) = MaxTensors
  /\ FirstInvalid(file) = MaxTensors
  /\ file.Tensors[1].Data # << >>
  /\ err.kind = "invalid tensor" /\ w = << >>

\* The whole file of the container f: the length, the padded header and the
\* data of the tensors in the order of f.
WholeFile(f) ==
  Written(headerFrom(f.Tensors, 1, 0), f.Metadata,
          Concat([i \in 1..Len(f.Tensors) |-> f.Tensors[i].Data]))

\* The number of bytes of the file of f that the Write calls before call
\* number k hand over: none, the length, then the header, then one tensor
\* after the other.
TakenBefore(f, k) ==
  IF k = 1 THEN 0
  ELSE IF k = 2 THEN 8
  ELSE 8 + HeaderLen(WholeFile(f)) + TotalLen(SubSeq(f.Tensors, 1, k - 3))

HeaderJSON(f) == MarshalJSON([tensors |-> headerFrom(f.Tensors, 1, 0), metadata |-> f.Metadata])

\* C16: in every file File.Serialize writes, the header length L is the
\* smallest multiple of 8 that is at least the length of the JSON text, the
\* header is that text followed by 0 to 7 spaces (which the JSON parser
\* takes), and the payload starts at a multiple of 8.
C16_HeaderPadding ==
  (Serialized /\ err = NoError)
    => LET json == HeaderJSON(file)
           L == HeaderLen(w)
       IN /\ L % 8 = 0
          /\ L >= Len(json) /\ L - Len(json) <= 7
          /\ Len(w) >= 8 + L
          /\ SubSeq(w, 9, 8 + Len(json)) = json
          /\ \A j \in (8 + Len(json) + 1)..(8 + L) : w[j] = 32
          /\ ParseJSON(HeaderText(w)).ok
          /\ (8 + L) % 8 = 0

\* C16: a file with a payload was written whose header ends in spaces.
C16_PaddedHeaderWritten ==
  /\ Serialized /\ err = NoError /\ HasPayload(w)
  /\ HeaderLen(w) > Len(HeaderJSON(file))
  /\ w[8 + HeaderLen(w)] = 32

\* C17: File.Serialize writes 8 bytes that hold the padded header length L
\* as a little-endian number, the L bytes of the header, then the data of
\* the tensors in the order of the header; the data_offsets of the header
\* are the running sums of the data lengths, and the file is
\* 8 + L + the sum of the data lengths long.
C17_EncodeLayout ==
  (Serialized /\ err = NoError)
    => LET infos == HeaderInfos(w)
           L == Len(w) - 8 - TotalLen(file.Tensors)
           ts == file.Tensors
       IN /\ L >= 0
          /\ \A j \in 1..4 : w[j] = (L \div (256 ^ (j - 1))) % 256
          /\ L < 256 ^ 3 /\ \A j \in 5..8 : w[j] = 0
          /\ L = Len(Align(HeaderJSON(file)))
          /\ Len(infos) = Len(ts)
          /\ \A i \in 1..Len(ts) :
               /\ infos[i].name = ts[i].Name
               /\ infos[i].DataOffsets[1] = (IF i = 1 THEN 0 ELSE infos[i - 1].DataOffsets[2])
               /\ infos[i].DataOffsets[2] = infos[i].DataOffsets[1] + Len(ts[i].Data)
               /\ SubSeq(w, 8 + L + infos[i].DataOffsets[1] + 1, 8 + L + infos[i].DataOffsets[2])
                    = ts[i].Data

\* C17: a file of several tensors was written whose last tensor has data
\* and starts where the data before it ends.
C17_RunningOffsetsWritten ==
  /\ Serialized /\ err = NoError /\ Len(file.Tensors) = MaxTensors
  /\ LET infos == HeaderInfos(w)
     IN /\ infos[MaxTensors].DataOffsets[1] > 0
        /\ infos[MaxTensors].DataOffsets[2] > infos[MaxTensors].DataOffsets[1]
        /\ Len(w) = 8 + HeaderLen(w) + infos[MaxTensors].DataOffsets[2]


(***************************************************************************)
(* C18: the schema of a tensor's entry                                     *)
(***************************************************************************)

\* The header of the bytes b as JSON text: [ok, v].
HeaderValue(b) == ParseJSON(HeaderText(b))

\* The keys of the object v.
KeysOf(v) == {v.kids[j].k : j \in 1..Len(v.kids)}

\* The members of the object v that name a tensor.
TensorMembers(v) == {j \in 1..Len(v.kids) : v.kids[j].k # metadataKey}

TensorFields ==
  {B(<<"d", "t", "y", "p", "e">>), B(<<"s", "h", "a", "p", "e">>),
   B(<<"d", "a", "t", "a", "_", "o", "f", "f", "s", "e", "t", "s">>)}

\* The value v is an object of exactly the three fields, its data_offsets
\* an array of two elements.
SchemaEntry(v) ==
  /\ v.t = "obj"
  /\ Len(v.kids) = 3
  /\ KeysOf(v) = TensorFields
  /\ \A j \in 1..Len(v.kids) :
       v.kids[j].k = B(<<"d", "a", "t", "a", "_", "o", "f", "f", "s", "e", "t", "s">>)
         => v.kids[j].v.t = "arr" /\ Len(v.kids[j].v.kids) = 2

\* The header of the bytes b is an object in which the entry of some tensor
\* leaves the schema.
SchemaBroken(b) ==
  /\ HeaderFits(b)
  /\ HeaderValue(b).ok
  /\ HeaderValue(b).v.t = "obj"
  /\ \E j \in TensorMembers(HeaderValue(b).v) : ~SchemaEntry(HeaderValue(b).v.kids[j].v)

\* C18 (as stated): Deserialize rejects with an error every header in which
\* a tensor key maps to something other than an object with exactly the
\* three fields dtype, shape and data_offsets: an entry with a missing
\* field, one with an extra field, and one whose data_offsets array does not
\* have exactly 2 elements.
C18_EntrySchema ==
  (Returned /\ SchemaBroken(buffer)) => res.err # NoError

\* C18 (witness): a written file whose one entry got a fourth field is
\* decoded without an error, into the tensors that were written.
C18_ExtraFieldAccepted ==
  /\ Accepted
  /\ change.op = "extra"
  /\ SchemaBroken(buffer)
  /\ Len(file.Tensors) >= 1
  /\ res.f.Tensors = file.Tensors


(***************************************************************************)
(* C19: the closed set of dtypes                                           *)
(***************************************************************************)

\* The entry v of a tensor names its dtype by a string that is one of the
\* tags.
HasTag(v) ==
  /\ v.t = "obj"
  /\ B(<<"d", "t", "y", "p", "e">>) \in KeysOf(v)
  /\ \A j \in 1..Len(v.kids) :
       v.kids[j].k = B(<<"d", "t", "y", "p", "e">>)
         => v.kids[j].v.t = "str" /\ v.kids[j].v.s \in DTypeTags

\* The header of the bytes b is an object in which some tensor has no dtype
\* of the table.
DTypeBroken(b) ==
  /\ HeaderFits(b)
  /\ HeaderValue(b).ok
  /\ HeaderValue(b).v.t = "obj"
  /\ \E j \in TensorMembers(HeaderValue(b).v) : ~HasTag(HeaderValue(b).v.kids[j].v)

\* C19 (as stated): Deserialize rejects every header in which a tensor's
\* dtype is not a string equal to one of the 15 tags of the DType table, so
\* every tensor of a decoded container has a dtype of non-zero byte width.
C19_ClosedDTypeSet ==
  /\ (Returned /\ DTypeBroken(buffer)) => res.err # NoError
  /\ Accepted => \A i \in 1..Len(res.f.Tensors) : dTypeToSize(res.f.Tensors[i].DType) # 0

\* C19 (witness): a header whose entry names no dtype is decoded without an
\* error, into a tensor whose dtype is the empty string, of width 0.
C19_WidthlessTensorDecoded ==
  /\ Accepted
  /\ change.op = "nodtype"
  /\ DTypeBroken(buffer)
  /\ \E i \in 1..Len(res.f.Tensors) :
       /\ res.f.Tensors[i].DType = << >>
       /\ dTypeToSize(res.f.Tensors[i].DType) = 0


(***************************************************************************)
(* C20: the header is a JSON object                                        *)
(***************************************************************************)

\* The header of the bytes b is well-formed JSON whose top-level value is no
\* object.
NonObjectHeader(b) ==
  /\ HeaderFits(b)
  /\ HeaderValue(b).ok
  /\ HeaderValue(b).v.t \in {"arr", "str", "num", "true", "false", "null"}

\* C20 (as stated): Deserialize rejects every input whose header bytes are
\* valid JSON with a top-level value that is not an object (an array, a
\* string, a number, true, false or null), and returns no container for it.
C20_HeaderIsObject ==
  (Returned /\ NonObjectHeader(buffer)) => (res.err # NoError /\ res.f = emptyFile)

\* C20 (witness): the ten bytes of the length 2 and the header [] are
\* decoded without an error, into a container without tensors.
C20_ArrayHeaderAccepted ==
  /\ Accepted
  /\ change.op = "top"
  /\ buffer = PutUint64(2) \o B(<<"[", "]">>)
  /\ NonObjectHeader(buffer)
  /\ res.f = emptyFile


(***************************************************************************)
(* C21: unique names                                                       *)
(***************************************************************************)

\* C21 (as stated): the tensor names of every container that Deserialize
\* returns without an error are pairwise distinct; a header with the same
\* tensor key twice never yields two tensors of the same name.
C21_UniqueNames ==
  Accepted => \A i, j \in 1..Len(res.f.Tensors) :
                 res.f.Tensors[i].Name = res.f.Tensors[j].Name => i = j

\* C21 (witness): a header with the same key twice, its two ranges one
\* after the other, is decoded without an error into two tensors of that
\* name.
C21_SameNameTwice ==
  /\ Accepted
  /\ HeaderFits(buffer)
  /\ Len(KeyOrder(buffer)) = 2
  /\ KeyOrder(buffer)[1] = KeyOrder(buffer)[2]
  /\ Len(res.f.Tensors) = 2
  /\ res.f.Tensors[1].Name = res.f.Tensors[2].Name
  /\ Len(res.f.Tensors[1].Data) > 0


(***************************************************************************)
(* C25: the order of the checks of Parse                                   *)
(***************************************************************************)

\* Some entry of infos has a fault in its offsets or in its size, or a size
\* that leaves the unsigned type on the way.
MetadataFault(infos) ==
  \E i \in 1..Len(infos) : OffsetFault(infos, i) \/ SizeFault(infos, i) \/ Overflows(infos, i)

\* The end offset of the last entry of infos, 0 without entries.
LastEnd(infos) == IF infos = << >> THEN 0 ELSE infos[Len(infos)].DataOffsets[2]

\* The error Parse owes the header text of b once its framing is sound:
\* that of the text, then of the metadata, then of the length.
TextChecked(b, pj, um) ==
  IF ~pj.ok THEN res.err.kind = "invalid header" /\ res.err.cause = "json: syntax error"
  ELSE IF um.err # NoError THEN res.err.kind = "invalid header"
  ELSE IF MetadataFault(um.h.tensors) THEN res.err.kind = "invalid metadata"
  ELSE IF LastEnd(um.h.tensors) + 8 + HeaderLen(b) # Len(b)
    THEN res.err.kind = "metadata incomplete buffer"
  ELSE res.err = NoError

\* C25: Parse applies its checks in this order and returns the error of the
\* first that fails: fewer than 8 bytes, N above 100,000,000, 8 + N above
\* the length of the input, header bytes that are not JSON, the validation
\* of the metadata, the exact length.
C25_CheckOrder ==
  Returned =>
    IF Len(buffer) < 8
      THEN res.err.kind = "invalid header" /\ res.err.cause = "too small"
    ELSE IF HeaderLen(buffer) > 100000000
      THEN res.err.kind = "invalid header" /\ res.err.cause = "too large"
    ELSE IF 8 + HeaderLen(buffer) > Len(buffer)
      THEN res.err.kind = "invalid header" /\ res.err.cause = "invalid length"
    ELSE TextChecked(buffer, HeaderValue(buffer), unmarshalValue(HeaderValue(buffer).v))

\* C25 (witness): a header with a fault in its metadata whose last end
\* offset does not fit the length of the input either is refused for its
\* metadata.
C25_MetadataBeforeLength ==
  /\ ParseDecoded
  /\ MetadataFault(DecodedInfos)
  /\ LastEnd(DecodedInfos) + 8 + HeaderLen(buffer) # Len(buffer)
  /\ res.err.kind = "invalid metadata"

\* C25 (witness): a length prefix that is above the ceiling and beyond the
\* end of the input is refused as too large.
C25_CeilingBeforeLength ==
  /\ Returned
  /\ Len(buffer) >= 8
  /\ HeaderLen(buffer) > 100000000
  /\ 8 + HeaderLen(buffer) > Len(buffer)
  /\ res.err.cause = "too large"


(***************************************************************************)
(* C27: Parse never leaves the buffer                                      *)
(***************************************************************************)

\* C27: on every input Parse returns a File or an error and no slice
\* expression leaves the buffer; when it returns a File, the end offset of
\* the last tensor plus 8 plus the header length is the length of the input
\* as integers, not only as wrapped sums, and the range of every tensor
\* lies in the payload.
C27_MemorySafe ==
  Returned =>
    /\ ~res.panic
    /\ res.err = NoError =>
         /\ LastEnd(DecodedInfos) + 8 + HeaderLen(buffer) = Len(buffer)
         /\ \A i \in 1..Len(DecodedInfos) :
              /\ DecodedInfos[i].DataOffsets[1] <= DecodedInfos[i].DataOffsets[2]
              /\ DecodedInfos[i].DataOffsets[2] <= Len(Payload(buffer))

\* C27 (witness): a header that validation passes declares an end offset so
\* large that the sum with 8 and the header length wraps around; the sum
\* is not the length of the input and Parse refuses it.
C27_WrappedSumRefused ==
  /\ ParseDecoded
  /\ change.op = "span"
  /\ ~MetadataFault(DecodedInfos)
  /\ LastEnd(DecodedInfos) + 8 + HeaderLen(buffer) >= Modulus
  /\ Add(Add(LastEnd(DecodedInfos), 8), HeaderLen(buffer)) < Len(buffer)
  /\ res.err.kind = "metadata incomplete buffer"
  /\ ~res.panic


(***************************************************************************)
(* C29: what File.Serialize writes, Parse accepts                          *)
(***************************************************************************)

\* C29 (as stated): for every File on which File.Serialize returns no
\* error, Parse accepts the bytes it wrote.
C29_EncodeDecodable ==
  (Returned /\ change = ReadBackChange /\ err = NoError) => Accepted

\* C29 (witness): File.Serialize writes a File of one tensor without data
\* whose element count wraps around to 0, and Parse refuses the bytes for
\* the overflow.
C29_WrittenOverflowRefused ==
  /\ Returned /\ change = ReadBackChange /\ err = NoError
  /\ buffer = w
  /\ Len(file.Tensors) = 1
  /\ file.Tensors[1].Shape = <<2, Modulus \div 2>>
  /\ file.Tensors[1].Data = << >>
  /\ res.err.kind = "invalid metadata"
  /\ res.err.cause = "failed to compute num elements from shape: multiplication overflow"


(***************************************************************************)
(* C26: checkedMul                                                         *)
(***************************************************************************)

\* The product of a and b as integers is above the largest unsigned value.
ProductTooLarge(a, b) == a > 0 /\ b > MaxUint \div a

\* C26: checkedMul(a, b) returns an error exactly when the product of a and
\* b as integers is above the largest unsigned value, and otherwise the
\* exact product and no error; (b, a) has the same outcome; the product with
\* 0 is 0 without an error and that of the largest value with 2 is an error.
C26_CheckedMulExact ==
  mul.done =>
    /\ mul.r.err # NoError <=> ProductTooLarge(mul.a, mul.b)
    /\ ~ProductTooLarge(mul.a, mul.b) => mul.r.c = mul.a * mul.b
    /\ checkedMul(mul.b, mul.a).c = mul.r.c
    /\ checkedMul(mul.b, mul.a).err = NoError <=> mul.r.err = NoError
    /\ mul.a = 0 => mul.r = [c |-> 0, err |-> NoError]
    /\ (mul.a = MaxUint /\ mul.b = 2) => mul.r.err # NoError

\* C26 (witness): 3 times half the modulus wraps around to a product that
\* is not below the larger operand, and checkedMul returns an error.
C26_OverflowAboveOperand ==
  /\ mul.done
  /\ mul.a = 3 /\ mul.b = Modulus \div 2
  /\ ProductTooLarge(mul.a, mul.b)
  /\ mul.r.c >= mul.b
  /\ mul.r.err.kind = "multiplication overflow"
  /\ mul.r.err.ops = <<mul.a, mul.b>>


(***************************************************************************)
(* C24, C28: the stream decoder                                            *)
(***************************************************************************)

\* deserialize has returned, after Parse on the same bytes.
Streamed == pc = "streamed"

\* deserialize has returned a File.
StreamAccepted == Streamed /\ stream.err = NoError /\ ~stream.panic

\* Parse found the header of the buffer sound and the length of the buffer
\* different from 8 + N + E.
LengthRefused == res.err.kind = "metadata incomplete buffer"

\* C24 (as stated): deserialize returns a File only if the stream holds
\* exactly 8 + N + E bytes, N the header length and E the end offset of the
\* last tensor, and a stream with a sound header that holds more bytes or
\* fewer is refused as an incomplete buffer.
C24_StreamExactLength ==
  Streamed =>
    /\ StreamAccepted =>
         Len(buffer) = 8 + HeaderLen(buffer) + LastEnd(res.r.tensors)
    /\ LengthRefused => stream.err.kind = "metadata incomplete buffer"

\* C24 (witness): the written file followed by one more byte is read from a
\* reader that gives out what it is asked for; Parse refuses these bytes as
\* an incomplete buffer, deserialize returns the File and leaves the last
\* byte in the reader.
C24_TrailingByteAccepted ==
  /\ Streamed /\ stream.chunk = 0
  /\ change.op = "grow" /\ buffer = w \o <<0>>
  /\ LengthRefused
  /\ StreamAccepted
  /\ stream.f = file
  /\ stream.left = 1

\* C28 (as stated): for every buffer that Parse accepts, deserialize on a
\* reader of the same bytes returns an equal File, however few bytes each
\* Read of the reader gives out.
C28_StreamAgreesWithParse ==
  (Streamed /\ res.err = NoError /\ ~res.panic) =>
    /\ StreamAccepted
    /\ stream.f = res.f

\* C28 (witness): the written file, which Parse accepts, is read from a
\* reader that gives out one byte per Read without an error; deserialize
\* refuses it after the first byte because the read of the length is short.
C28_ShortReadRefused ==
  /\ Streamed /\ stream.chunk = 1
  /\ change = ReadBackChange
  /\ res.err = NoError /\ ~res.panic /\ res.f = file
  /\ stream.err = Error("invalid header", "failed to read: %!w(<nil>)", << >>, << >>)
  /\ stream.left = Len(buffer) - 1


(***************************************************************************)
(* C22, C23, C30: the handle and the mapping of a Mapped                   *)
(***************************************************************************)

\* Open has returned an error.
OpenFailed == ret.op = "Open" /\ ret.err # NoError /\ ~ret.panic

\* Close has been called on an open Mapped, one whose last Open succeeded
\* and that was not closed since.
ClosedOpen == ret.op = "Close" /\ ret.open

\* C22: whenever Open returns an error, every file handle the call opened
\* has had its Close called and every mapping the call made has had its
\* Unmap called, once each, whether os.OpenFile, mmap.Map or Parse failed.
C22_OpenUnwinds ==
  OpenFailed =>
    /\ \A h \in ret.hs : handles[h].closes = 1
    /\ \A m \in ret.ms : mappings[m].unmaps = 1
    /\ ret.name = "missing" => ret.hs = {} /\ ret.ms = {}

\* C22 (witness): Open of a file whose bytes Parse refuses returns the error
\* of Parse after it has unmapped the mapping and closed the handle it made.
C22_ParseFailureUnwound ==
  /\ OpenFailed /\ ret.name = "broken"
  /\ ret.err.kind = "metadata incomplete buffer"
  /\ ret.hs = {1} /\ ret.ms = {1}
  /\ ret.calls = <<Release("Unmap", 1), Release("Close", 1)>>
  /\ handles[1].closes = 1 /\ mappings[1].unmaps = 1

\* C23: every Close of an open Mapped calls the Unmap of its mapping and
\* then the Close of its handle, the Close also when the Unmap failed, and
\* returns the error of the Unmap if it failed and that of the Close
\* otherwise, nil when both succeed.
C23_CloseReleasesBoth ==
  ClosedOpen =>
    /\ ~ret.panic
    /\ Len(ret.calls) = 2
    /\ ret.calls[1].op = "Unmap" /\ ret.calls[1].id # 0
    /\ ret.calls[2] = Release("Close", mapped.f) /\ mapped.f # 0
    /\ mappings[ret.calls[1].id].f = mapped.f
    /\ mappings[ret.calls[1].id].unmaps = 1
    /\ handles[mapped.f].closes = 1
    /\ ret.err = IF ret.uerr # NoError THEN ret.uerr ELSE ret.cerr
    /\ (ret.uerr = NoError /\ ret.cerr = NoError) => ret.err = NoError

\* C23 (witness): the Unmap of an open Mapped fails; Close closes the handle
\* all the same, and returns the error of the Unmap although the Close of the
\* handle failed too.
C23_HandleClosedAfterFailedUnmap ==
  /\ ClosedOpen
  /\ ret.uerr.kind = "unmap failed" /\ ret.cerr.kind = "close failed"
  /\ ret.calls = <<Release("Unmap", 1), Release("Close", 1)>>
  /\ handles[1].closes = 1
  /\ ret.err = ret.uerr

\* C30 (as stated): whatever Open and Close calls are made on one Mapped,
\* no handle has its Close called twice and no mapping its Unmap, and when a
\* Close has returned every handle and every mapping of the process has
\* been released.
C30_ReleasedExactlyOnce ==
  /\ \A h \in 1..Len(handles) : handles[h].closes <= 1
  /\ \A m \in 1..Len(mappings) : mappings[m].unmaps <= 1
  /\ (ret.op = "Close" /\ ~ret.panic) =>
       /\ \A h \in 1..Len(handles) : handles[h].closes = 1
       /\ \A m \in 1..Len(mappings) : mappings[m].unmaps = 1

\* C30 (witness): Open succeeds twice on one Mapped and Close returns nil;
\* the handle and the mapping of the first Open were never released.
C30_ReopenLeaks ==
  /\ ret.op = "Close" /\ ret.n = 3 /\ ret.err = NoError /\ ~ret.panic
  /\ Len(handles) = 2 /\ Len(mappings) = 2
  /\ handles[1].closes = 0 /\ mappings[1].unmaps = 0
  /\ handles[2].closes = 1 /\ mappings[2].unmaps = 1
  /\ mapped.m = 0

====
